---------------------------- MODULE Spec2Model ----------------------------
(***************************************************************************)
(* AdaptiFocus decision pipeline: ContextAgent (ContextScorer),            *)
(* PatternAgent (PatternAnalyzer), InterventionAgent (InterventionPolicy)  *)
(* and CoordinatorAgent (Coordinator), modelled from src/backend/agents,   *)
(* and the routes /interventions/check, /sessions/start and /sessions/end  *)
(* of src/backend/api/routes.                                              *)
(*                                                                         *)
(* Number representation.  TLA+ has integers only, so every float of the   *)
(* program is carried as a scaled integer:                                 *)
(*   - context signals (domain_score, title_score, ...) in sixtieths       *)
(*     (Unit = 60): every signal of ContextAgent.analyze is a multiple of  *)
(*     1/60, so the sum of the signals is exact;                           *)
(*   - every value the program passes through round(x, 3) (confidence,     *)
(*     context_score, topic_relevance, risk) in thousandths;               *)
(*   - urgency in tenths; seconds as integers.                             *)
(* Where IEEE-754 double arithmetic gives another result than exact        *)
(* arithmetic the model follows the double: see IntTimes07, Classify and   *)
(* Round3.                                                                 *)
(***************************************************************************)
EXTENDS Integers, Sequences, FiniteSets, TLC

VARIABLES
    op,          \* which call is in progress and whether it has returned
    iv_in,       \* InterventionAgent.analyze: the data dictionary it was given
    iv_out,      \* InterventionAgent.analyze: the decision it returned
    cx_in,       \* ContextAgent.analyze: the data dictionary it was given
    cx_gemini,   \* ContextAgent.analyze: what the semantic classifier did
    cx_out,      \* ContextAgent.analyze: the result it returned
    pt_in,       \* PatternAgent.analyze: the data dictionary it was given
    pt_out,      \* PatternAgent.analyze: the result it returned
    co_in,       \* CoordinatorAgent.analyze: the data dictionary it was given
    co_out,      \* CoordinatorAgent.analyze: the dictionary it returned
    co_calls,    \* CoordinatorAgent.analyze: the agents called so far, in order
    memo,        \* the lru_cache of _ask_gemini_classification, oldest entry first
    reqs,        \* the concurrent ContextAgent.analyze calls, one per request
    sd_in,       \* ContextAgent._score_domain: the hostname it was given
    sd_out,      \* ContextAgent._score_domain: the score it returned
    interventions,  \* the interventions table: the rows of today, in insertion order
    checks,      \* the /interventions/check requests in progress, one per thread
    checked,     \* the /interventions/check requests answered so far, in order
    sessions,    \* the study_sessions table, by id
    session_reqs \* the /sessions/start and /sessions/end requests in progress

vars == <<op, iv_in, iv_out, cx_in, cx_gemini, cx_out, pt_in, pt_out,
          co_in, co_out, co_calls, memo, reqs, sd_in, sd_out,
          interventions, checks, checked, sessions, session_reqs>>

(***************************************************************************)
(* Generic helpers                                                         *)
(***************************************************************************)
Max(a, b) == IF a >= b THEN a ELSE b
Min(a, b) == IF a <= b THEN a ELSE b
Abs(a) == IF a < 0 THEN -a ELSE a

\* floor(num / den) for den > 0 and any integer num
FloorDiv(num, den) == num \div den

\* Hostnames are sequences of labels: "m.youtube.com" is <<"m","youtube","com">>.
NoDomain == <<>>


(***************************************************************************)
(* Python dictionaries keep insertion order; a dictionary whose order is   *)
(* observable (domain_risk_scores) is a sequence of [key, value] records   *)
(* with distinct keys.                                                     *)
(***************************************************************************)
DictKeys(d) == {d[i].key : i \in 1..Len(d)}

\* dict.get(key, default)
DictGet(d, k, default) ==
    IF k \in DictKeys(d)
    THEN d[CHOOSE i \in 1..Len(d) : d[i].key = k].value
    ELSE default

(***************************************************************************)
(* ContextAgent (src/backend/agents/context_agent.py)                      *)
(***************************************************************************)
STUDY_DOMAINS ==
    {<<"scholar", "google", "com">>, <<"arxiv", "org">>,
     <<"ieee", "org">>, <<"ieeexplore", "ieee", "org">>, <<"acm", "org">>,
     <<"dl", "acm", "org">>, <<"researchgate", "net">>,
     <<"semanticscholar", "org">>, <<"sciencedirect", "com">>,
     <<"springer", "com">>, <<"jstor", "org">>, <<"github", "com">>,
     <<"gitlab", "com">>, <<"stackoverflow", "com">>,
     <<"stackexchange", "com">>, <<"developer", "mozilla", "org">>,
     <<"docs", "python", "org">>, <<"devdocs", "io">>,
     <<"docs", "google", "com">>, <<"sheets", "google", "com">>,
     <<"slides", "google", "com">>, <<"notion", "so">>,
     <<"overleaf", "com">>, <<"sharelatex", "com">>,
     <<"coursera", "org">>, <<"edx", "org">>, <<"udemy", "com">>,
     <<"khanacademy", "org">>, <<"leetcode", "com">>,
     <<"hackerrank", "com">>, <<"geeksforgeeks", "org">>,
     <<"mit", "edu">>, <<"ocw", "mit", "edu">>, <<"stanford", "edu">>,
     <<"harvard", "edu">>, <<"ox", "ac", "uk">>, <<"cam", "ac", "uk">>,
     <<"berkeley", "edu">>}

MIXED_DOMAINS ==
    {<<"youtube", "com">>, <<"reddit", "com">>, <<"medium", "com">>,
     <<"quora", "com">>, <<"twitter", "com">>, <<"x", "com">>}

DISTRACTION_DOMAINS ==
    {<<"facebook", "com">>, <<"instagram", "com">>, <<"tiktok", "com">>,
     <<"netflix", "com">>, <<"hulu", "com">>, <<"twitch", "tv">>,
     <<"9gag", "com">>, <<"buzzfeed", "com">>, <<"disneyplus", "com">>,
     <<"primevideo", "com">>}

ADULT_DOMAINS ==
    {<<"pornhub", "com">>, <<"xvideos", "com">>, <<"xnxx", "com">>,
     <<"xhamster", "com">>, <<"redtube", "com">>, <<"youporn", "com">>,
     <<"chaturbate", "com">>, <<"onlyfans", "com">>}

\* stop_words of _compute_topic_relevance
STOP_WORDS ==
    {"the", "a", "an", "in", "on", "at", "to", "for", "of",
     "and", "or", "is", "it", "with", "-", "|", "--"}

\* One signal unit: scores are carried in sixtieths (0.2 is 12, -2.0 is -120)
Unit == 60

\* domain.endswith("." + registered): registered is a proper suffix of the
\* label sequence of domain
EndsWithDot(domain, registered) ==
    /\ Len(domain) > Len(registered)
    /\ SubSeq(domain, Len(domain) - Len(registered) + 1, Len(domain)) = registered

IsSubdomainOf(domain, catalog) == \E r \in catalog : EndsWithDot(domain, r)

\* _extract_domain(url): the hostname of the url without a leading "www.",
\* None when the url is None or the hostname is empty.  A url is modelled by
\* the label sequence of its hostname (<<>> for None or no hostname).
ExtractDomain(url) ==
    IF url = <<>> THEN NoDomain
    ELSE IF Len(url) > 1 /\ url[1] = "www" THEN Tail(url)
    ELSE url

ScoreDomain_SubdomainAsExact(domain) ==
    IF domain = NoDomain THEN 0
    ELSE IF domain \in ADULT_DOMAINS \/ IsSubdomainOf(domain, ADULT_DOMAINS)
    THEN -120
    ELSE IF domain \in STUDY_DOMAINS \/ IsSubdomainOf(domain, STUDY_DOMAINS)
    THEN 48
    ELSE IF domain \in MIXED_DOMAINS \/ IsSubdomainOf(domain, MIXED_DOMAINS)
    THEN 0
    ELSE IF domain \in DISTRACTION_DOMAINS
            \/ IsSubdomainOf(domain, DISTRACTION_DOMAINS)
    THEN -48
    ELSE 0

\* ContextAgent._score_domain, in sixtieths
ScoreDomain(domain) ==
    IF domain = NoDomain THEN 0
    ELSE IF domain \in ADULT_DOMAINS THEN -120
    ELSE IF domain \in STUDY_DOMAINS THEN 48
    ELSE IF domain \in MIXED_DOMAINS THEN 0
    ELSE IF domain \in DISTRACTION_DOMAINS THEN -48
    ELSE IF IsSubdomainOf(domain, ADULT_DOMAINS) THEN -120
    ELSE IF IsSubdomainOf(domain, STUDY_DOMAINS) THEN 36
    ELSE IF IsSubdomainOf(domain, MIXED_DOMAINS) THEN 0
    ELSE IF IsSubdomainOf(domain, DISTRACTION_DOMAINS) THEN -36
    ELSE 0

(***************************************************************************)
(* A title is modelled by what the program reads of it:                    *)
(*   length            "empty", "short" (1..4 characters) or "long"        *)
(*   adult             some ADULT_KEYWORDS pattern matches                 *)
(*   study_hits        number of STUDY_KEYWORDS patterns that match        *)
(*   distraction_hits  number of DISTRACTION_KEYWORDS patterns that match  *)
(*   words             set(title.lower().split()), as far as the words of  *)
(*                     the model's vocabulary go                           *)
(***************************************************************************)
TitleIsEmpty(title) == title.length = "empty"

\* ContextAgent._score_title_regex, in sixtieths
ScoreTitleRegex(title) ==
    IF TitleIsEmpty(title) THEN 0
    ELSE IF title.adult THEN -120
    ELSE IF title.study_hits > title.distraction_hits
         THEN Min(42, title.study_hits * 12)
    ELSE IF title.distraction_hits > title.study_hits
         THEN Max(-42, title.distraction_hits * (-12))
    ELSE 0

(***************************************************************************)
(* ContextAgent._ask_gemini_classification(title).  gemini is what the     *)
(* collaborator does when it is called: it answers "study", "distraction"  *)
(* or "neutral", or the call fails ("error").  An empty or short title     *)
(* returns "neutral" without a call; a failure returns "neutral".          *)
(***************************************************************************)
GeminiAnswers == {"study", "distraction", "neutral", "error"}

AskGeminiClassification_ErrorIsDistraction(title, gemini) ==
    IF title.length \in {"empty", "short"} THEN "neutral"
    ELSE IF gemini \in {"distraction", "error"} THEN "distraction"
    ELSE IF gemini = "study" THEN "study"
    ELSE "neutral"

AskGeminiClassification(title, gemini) ==
    IF title.length \in {"empty", "short"} THEN "neutral"
    ELSE IF gemini = "distraction" THEN "distraction"
    ELSE IF gemini = "study" THEN "study"
    ELSE "neutral"

\* The test of analyze that sends the title to the collaborator: the domain
\* is in MIXED_DOMAINS, google.genai was imported and GEMINI_API_KEY is set
AsksGemini(domain, gemini) == domain \in MIXED_DOMAINS /\ gemini # "unavailable"

\* analyze, step 2: title_score, in sixtieths
TitleScore(domain, title, gemini) ==
    IF AsksGemini(domain, gemini)
    THEN LET llm_result == AskGeminiClassification(title, gemini)
         IN  IF llm_result = "distraction" THEN -48
             ELSE IF llm_result = "study" THEN 48
             ELSE ScoreTitleRegex(title)
    ELSE ScoreTitleRegex(title)

\* ContextAgent._compute_topic_relevance: <<|overlap|, |topic_words|>>, the
\* ratio the program returns, or <<0, 1>> for the 0.0 of an empty topic
TopicRelevanceRatio(topic, title) ==
    LET topic_words == topic.words \ STOP_WORDS
        title_words == title.words \ STOP_WORDS
    IN  IF topic_words = {} THEN <<0, 1>>
        ELSE <<Cardinality(topic_words \cap title_words), Cardinality(topic_words)>>

\* analyze, step 4: topic_relevance stays 0.0 unless study_topic and title
\* are both truthy
TopicRelevance(topic, title) ==
    IF topic.present /\ ~TitleIsEmpty(title)
    THEN TopicRelevanceRatio(topic, title)
    ELSE <<0, 1>>

\* recent_domains[-5:]
LastFive_WholeList(recent_domains) == recent_domains

LastFive(recent_domains) ==
    IF Len(recent_domains) <= 5 THEN recent_domains
    ELSE SubSeq(recent_domains, Len(recent_domains) - 4, Len(recent_domains))

RECURSIVE SumSeq(_)
SumSeq(seq) == IF seq = <<>> THEN 0 ELSE Head(seq) + SumSeq(Tail(seq))

\* ContextAgent._score_trajectory: <<weighted, max_weight>>, the ratio the
\* program returns, or <<0, 1>> for the 0.0 of an empty list
ScoreTrajectory(recent_domains) ==
    LET last == LastFive(recent_domains)
        scores == [i \in 1..Len(last) |->
                     IF last[i] \in STUDY_DOMAINS THEN 1
                     ELSE IF last[i] \in DISTRACTION_DOMAINS THEN -1
                     ELSE 0]
        weighted == SumSeq([i \in 1..Len(last) |-> scores[i] * i])
        max_weight == SumSeq([i \in 1..Len(last) |-> i])
    IN  IF recent_domains = <<>> THEN <<0, 1>> ELSE <<weighted, max_weight>>

(***************************************************************************)
(* round(x, 3) of the double nearest num/den (den > 0), in thousandths     *)
(* when num/den is given in thousandths.  Off a tie it is the nearest      *)
(* integer.  On a tie (x.xxx5) the double that carries the value lies a    *)
(* rounding error above or below it and round() follows the double, so     *)
(* either neighbour can be returned: both are kept.                        *)
(***************************************************************************)
Round3(num, den) ==
    LET q == FloorDiv(num, den)
        rem == num - q * den
    IN  IF 2 * rem < den THEN {q}
        ELSE IF 2 * rem > den THEN {q + 1}
        ELSE {q, q + 1}

(***************************************************************************)
(* The classification of analyze from the list scores (in sixtieths):      *)
(* study if the mean > 0.2, distraction if < -0.2, else neutral.  The      *)
(* program compares the double sum(scores)/len(scores) with the double     *)
(* 0.2.  Off the boundary the rounding error of the sum (a few 2^-53)      *)
(* cannot change the comparison.  When the exact mean is -0.2 or 0.2 it    *)
(* decides it: (0.6 + -0.2 + -1.0)/3 is -0.20000000000000004, which is     *)
(* below -0.2.  FloatMeanBelow and FloatMeanAbove list the signal lists    *)
(* with exact mean -0.2 and 0.2 whose double mean lies beyond the          *)
(* boundary, over every list analyze can collect (title scores of any      *)
(* number of hits, classifier answers, trajectories of up to five          *)
(* domains); every other list on the boundary has the double -0.2 or 0.2   *)
(* or one inside the neutral band.                                         *)
(***************************************************************************)
FloatMeanBelow ==
    {<<-48, -36, 48>>, <<-48, -36, 48, -18, -6>>, <<-48, -24, 48, -24>>,
     <<-48, -24, 48, -18, -18>>, <<-48, 0, 12>>, <<-36, -36, 48, -24>>,
     <<-36, -36, 48, -18, -18>>, <<-36, -12, 12>>, <<36, -48, -96, 30, 18>>,
     <<36, -36, -84, 30, -6>>, <<36, -24, -72, 12>>, <<36, -24, -72, 30, -30>>,
     <<36, -12, -60>>, <<48, -36, -84, 24>>, <<48, -36, -84, 30, -18>>}

FloatMeanAbove == {<<36, 12, -12>>, <<48, 0, -12>>}

Classify(scores) ==
    LET total == SumSeq(scores)
        n == Len(scores)
    IN  IF total > 12 * n \/ scores \in FloatMeanAbove THEN "study"
        ELSE IF total < -12 * n \/ scores \in FloatMeanBelow THEN "distraction"
        ELSE "neutral"

\* max(-1.0, min(1.0, total/(60 n))), as <<numerator, denominator>>
ClampedMean(total, n) ==
    IF total > Unit * n THEN <<1, 1>>
    ELSE IF total < -(Unit * n) THEN <<-1, 1>>
    ELSE <<total, Unit * n>>

\* round(min(1.0, abs(context_score) * 1.5), 3), in thousandths
Confidence_NoCap(mean) == Round3(1500 * Abs(mean[1]), mean[2])

Confidence(mean) ==
    Round3(Min(1500 * Abs(mean[1]), 1000 * mean[2]), mean[2])

\* analyze, step 3: the override signal, if any
OverrideSignals_PenaltyOnly(domain_score, title_score) ==
    IF domain_score >= 0 /\ title_score < 0 THEN <<-48 + title_score>>
    ELSE <<>>

OverrideSignals(domain_score, title_score) ==
    IF domain_score <= 0 /\ title_score > 0 THEN <<Unit + title_score>>
    ELSE IF domain_score >= 0 /\ title_score < 0 THEN <<-48 + title_score>>
    ELSE <<>>

OverrideReasons(domain_score, title_score) ==
    IF domain_score <= 0 /\ title_score > 0 THEN <<"override_study">>
    ELSE IF domain_score >= 0 /\ title_score < 0 THEN <<"override_distraction">>
    ELSE <<>>

\* analyze, step 4: the relevance boost when topic_relevance > 0.3
TopicBoosts(domain_score, relevance) ==
    IF 10 * relevance[1] > 3 * relevance[2]
    THEN <<IF domain_score < 0 THEN 48 ELSE 30>>
    ELSE <<>>

\* analyze, step 5: the session penalty
SessionPenalties(session_active, domain_score, title_score) ==
    IF session_active /\ domain_score < 0 /\ title_score <= 0
    THEN <<-18>> ELSE <<>>

\* analyze, step 6: trajectory_score * 0.5 when abs(trajectory_score) > 0.1
TrajectorySignals(trajectory) ==
    IF 10 * Abs(trajectory[1]) > trajectory[2]
    THEN <<(30 * trajectory[1]) \div trajectory[2]>>
    ELSE <<>>

TrajectoryReasons(trajectory) ==
    IF 10 * Abs(trajectory[1]) > trajectory[2]
    THEN <<IF trajectory[1] < 0 THEN "trend_distraction" ELSE "trend_study">>
    ELSE <<>>

IsAIReason(reason) == reason \in {"ai_distraction", "ai_study"}

\* analyze, lines 176-179: the title reason.  Python reads
\*   title_score > 0 and "AI" not in reasons[-1] if reasons else True
\* as (title_score > 0 and ...) if reasons else True.
TitleReasons(reasons, title_score) ==
    IF (IF reasons # <<>>
        THEN title_score > 0 /\ ~IsAIReason(reasons[Len(reasons)])
        ELSE TRUE)
    THEN <<"title_study">>
    ELSE IF (IF reasons # <<>>
             THEN title_score < 0 /\ ~IsAIReason(reasons[Len(reasons)])
             ELSE TRUE)
    THEN <<"title_distraction">>
    ELSE <<>>

\* analyze, line 227: the severe test
IsAdult(domain_score, title_score) ==
    domain_score <= -120 \/ title_score <= -120

\* analyze, line 141: data.get("current_domain") or _extract_domain(url)
CxDomain(data) ==
    IF data.current_domain # NoDomain THEN data.current_domain
    ELSE ExtractDomain(data.current_url)

\* analyze, steps 1 to 6: the list scores, in sixtieths
Signals(data, gemini) ==
    LET title == data.current_title
        domain_score == ScoreDomain(CxDomain(data))
        title_score == TitleScore(CxDomain(data), title, gemini)
    IN  <<domain_score, title_score>>
            \o OverrideSignals(domain_score, title_score)
            \o TopicBoosts(domain_score, TopicRelevance(data.study_topic, title))
            \o SessionPenalties(data.session_active, domain_score, title_score)
            \o TrajectorySignals(ScoreTrajectory(data.recent_domains))

(***************************************************************************)
(* ContextAgent.analyze(data): the set of result dictionaries the call can *)
(* return (one, unless a rounding tie decides: see Round3).                 *)
(* gemini is "unavailable" when google.genai is not importable or          *)
(* GEMINI_API_KEY is unset, and otherwise what the collaborator does.      *)
(* confidence, topic_relevance and context_score are in thousandths;       *)
(* reasons are tags for the reason strings.                                *)
(***************************************************************************)
ContextAnalyze(data, gemini) ==
    LET title == data.current_title
        domain == CxDomain(data)
        domain_score == ScoreDomain(domain)
        reasons1 == IF domain_score > 0 THEN <<"domain_study">>
                    ELSE IF domain_score < 0 THEN <<"domain_distraction">>
                    ELSE <<>>
        llm_result == IF AsksGemini(domain, gemini)
                      THEN AskGeminiClassification(title, gemini) ELSE "neutral"
        title_score == TitleScore(domain, title, gemini)
        reasons2 == reasons1 \o
            (IF AsksGemini(domain, gemini) /\ llm_result = "distraction"
             THEN <<"ai_distraction">>
             ELSE IF AsksGemini(domain, gemini) /\ llm_result = "study"
             THEN <<"ai_study">>
             ELSE <<>>)
        reasons3 == reasons2 \o TitleReasons(reasons2, title_score)
        relevance == TopicRelevance(data.study_topic, title)
        boosts == TopicBoosts(domain_score, relevance)
        penalties == SessionPenalties(data.session_active, domain_score, title_score)
        trajectory == ScoreTrajectory(data.recent_domains)
        scores == Signals(data, gemini)
        reasons6 == reasons3
                    \o OverrideReasons(domain_score, title_score)
                    \o (IF boosts # <<>> THEN <<"topic_relevant">> ELSE <<>>)
                    \o (IF penalties # <<>> THEN <<"session_distraction">> ELSE <<>>)
                    \o TrajectoryReasons(trajectory)
        is_adult == IsAdult(domain_score, title_score)
        total == SumSeq(scores)
        n == Len(scores)
        mean == ClampedMean(total, n)
        topic_relevances == Round3(1000 * relevance[1], relevance[2])
    IN  IF is_adult
        THEN {[classification |-> "distraction",
               confidence |-> 1000,
               topic_relevance |-> r,
               context_score |-> -1000,
               reasons |-> reasons6 \o <<"adult">>,
               is_adult |-> TRUE] : r \in topic_relevances}
        ELSE {[classification |-> c,
               confidence |-> k,
               topic_relevance |-> r,
               context_score |-> x,
               reasons |-> reasons6,
               is_adult |-> FALSE] :
                 c \in {Classify(scores)},
                 k \in Confidence(mean),
                 r \in topic_relevances,
                 x \in Round3(1000 * mean[1], mean[2])}

(***************************************************************************)
(* InterventionAgent (src/backend/agents/intervention_agent.py)            *)
(***************************************************************************)
NUDGE_THRESHOLD_SECONDS == 30
WARN_THRESHOLD_SECONDS == 120
SOFT_BLOCK_THRESHOLD_SECONDS == 300
HARD_BLOCK_THRESHOLD_SECONDS == 600

\* Sizes of the message pools NUDGE_MESSAGES .. HARD_BLOCK_MESSAGES
NudgePoolSize == 3
WarnPoolSize == 2
SoftBlockPoolSize == 2
HardBlockPoolSize == 1

MessageIndex_Capped(interventions_today, pool_size) ==
    Min(interventions_today, pool_size - 1)

\* The index of the message taken from a pool:
\* interventions_today % len(<LEVEL>_MESSAGES)
MessageIndex(interventions_today, pool_size) ==
    interventions_today % pool_size

\* INTERVENTION_LEVELS of config.py: the total order of the levels
LevelRank(level) ==
    CASE level = "none" -> 0
      [] level = "nudge" -> 1
      [] level = "warn" -> 2
      [] level = "soft_block" -> 3
      [] level = "hard_block" -> 4

\* _format_duration(seconds): "<s>s", "<m>m" or "<m>m <s>s"
FormatDuration(seconds) ==
    IF seconds < 60 THEN <<seconds, "s">>
    ELSE IF seconds % 60 = 0 THEN <<seconds \div 60, "m">>
    ELSE <<seconds \div 60, "m", seconds % 60, "s">>

\* The confidence gate of analyze: confidence < 0.3 (confidence in thousandths)
ConfidenceGate == 300

\* risk_multiplier = max(0.5, 1.0 - domain_risk * 0.5), in two-thousandths,
\* for a risk given in thousandths
RiskMultiplier_Rising(domain_risk) == Min(2000, 1000 + domain_risk)

RiskMultiplier(domain_risk) == Max(1000, 2000 - domain_risk)

(***************************************************************************)
(* int(base * risk_multiplier), as IEEE-754 doubles compute it for the     *)
(* four thresholds of config.py and a risk of k thousandths (what          *)
(* round(x, 3) of PatternAgent gives).  It is the floor of the exact       *)
(* product except where the exact product is an integer and the double     *)
(* product lies just below it: 600 * (1.0 - 0.37 * 0.5) is                 *)
(* 488.99999999999994, so int() gives 488.  These are all such pairs of    *)
(* <<base, multiplier>> for k in 0..1000.                                  *)
(***************************************************************************)
AdjustByRisk(base, multiplier) ==
    LET below == {<<600, 1630>>, <<600, 1610>>, <<300, 1380>>, <<600, 1380>>,
                  <<300, 1360>>, <<600, 1360>>, <<300, 1340>>, <<600, 1340>>,
                  <<300, 1320>>, <<600, 1320>>, <<600, 1130>>, <<600, 1110>>,
                  <<600, 1090>>, <<600, 1070>>}
        floor == FloorDiv(base * multiplier, 2000)
    IN  IF <<base, multiplier>> \in below THEN floor - 1 ELSE floor

\* The largest power of two that is <= n, for n >= 1
RECURSIVE Pow2Below(_)
Pow2Below(n) == IF n < 2 THEN 1 ELSE 2 * Pow2Below(n \div 2)

(***************************************************************************)
(* int(a * 0.7) for an integer a >= 0, as IEEE-754 doubles compute it.     *)
(* The double nearest 0.7 is 0.7 - 0.4 * 2^-53.  When 7a/10 is not an      *)
(* integer the product is far from an integer and int() gives the floor.   *)
(* When 7a/10 is an integer N, the exact product is N - N*(4/7)*2^-53,     *)
(* which rounds to the double just below N (and int() then gives N - 1)    *)
(* exactly when it is more than half a spacing below N, that is when       *)
(* 4N > 7 * 2^k for 2^k <= N < 2^(k+1): int(90 * 0.7) = 62.                *)
(***************************************************************************)
IntTimes07(a) ==
    LET n == (7 * a) \div 10
    IN  IF a > 0 /\ (7 * a) % 10 = 0 /\ 4 * n > 7 * Pow2Below(n)
        THEN n - 1
        ELSE n

AdjustedThreshold_SessionLoosens(base, domain_risk, session_active) ==
    LET byRisk == AdjustByRisk(base, RiskMultiplier(domain_risk))
    IN  IF session_active THEN byRisk + IntTimes07(byRisk) ELSE byRisk

\* adjusted_<level>: the threshold after the risk and session adjustments
AdjustedThreshold(base, domain_risk, session_active) ==
    LET byRisk == AdjustByRisk(base, RiskMultiplier(domain_risk))
    IN  IF session_active THEN IntTimes07(byRisk) ELSE byRisk

\* The gate of analyze, negated: the early return is taken unless this holds
GatePasses_ClassificationOnly(classification, confidence) ==
    classification = "distraction"

GatePasses_StrictlyAbove(classification, confidence) ==
    classification = "distraction" /\ confidence > ConfidenceGate

GatePasses(classification, confidence) ==
    classification = "distraction" /\ confidence >= ConfidenceGate

\* cooldown_seconds of the decision returned below the nudge threshold
RecheckCooldown_NoFloor(adjusted_nudge, time_on_current) ==
    adjusted_nudge - time_on_current

RecheckCooldown(adjusted_nudge, time_on_current) ==
    Max(5, adjusted_nudge - time_on_current)

NoDecision(cooldown) ==
    [should_intervene |-> FALSE, level |-> "none", message |-> <<>>,
     urgency |-> 0, cooldown_seconds |-> cooldown]

\* InterventionAgent.analyze(data): the decision dictionary it returns.
\* urgency is in tenths; message is <<pool, index, formatted duration>>.
InterventionAnalyze(data) ==
    LET context == data.context_result
        pattern == data.pattern_result
        time_on_current == data.time_on_current_seconds
        interventions_today == data.interventions_today
        classification ==
            IF "classification" \in DOMAIN context
            THEN context.classification ELSE "neutral"
        confidence ==
            IF "confidence" \in DOMAIN context THEN context.confidence ELSE 0
        risks ==
            IF "domain_risk_scores" \in DOMAIN pattern
            THEN pattern.domain_risk_scores ELSE <<>>
        domain_risk == DictGet(risks, data.current_domain, 500)
        adjusted_nudge ==
            AdjustedThreshold(NUDGE_THRESHOLD_SECONDS, domain_risk, data.session_active)
        adjusted_warn ==
            AdjustedThreshold(WARN_THRESHOLD_SECONDS, domain_risk, data.session_active)
        adjusted_soft ==
            AdjustedThreshold(SOFT_BLOCK_THRESHOLD_SECONDS, domain_risk, data.session_active)
        adjusted_hard ==
            AdjustedThreshold(HARD_BLOCK_THRESHOLD_SECONDS, domain_risk, data.session_active)
        duration_str == FormatDuration(time_on_current)
    IN  IF ~GatePasses(classification, confidence)
        THEN NoDecision(30)
        ELSE IF time_on_current >= adjusted_hard
        THEN [should_intervene |-> TRUE, level |-> "hard_block",
              message |-> <<"hard_block",
                            MessageIndex(interventions_today, HardBlockPoolSize),
                            duration_str>>,
              urgency |-> 10, cooldown_seconds |-> 0]
        ELSE IF time_on_current >= adjusted_soft
        THEN [should_intervene |-> TRUE, level |-> "soft_block",
              message |-> <<"soft_block",
                            MessageIndex(interventions_today, SoftBlockPoolSize),
                            duration_str>>,
              urgency |-> 8, cooldown_seconds |-> 15]
        ELSE IF time_on_current >= adjusted_warn
        THEN [should_intervene |-> TRUE, level |-> "warn",
              message |-> <<"warn",
                            MessageIndex(interventions_today, WarnPoolSize),
                            duration_str>>,
              urgency |-> 6, cooldown_seconds |-> 30]
        ELSE IF time_on_current >= adjusted_nudge
        THEN [should_intervene |-> TRUE, level |-> "nudge",
              message |-> <<"nudge",
                            MessageIndex(interventions_today, NudgePoolSize)>>,
              urgency |-> 3, cooldown_seconds |-> 60]
        ELSE NoDecision(RecheckCooldown(adjusted_nudge, time_on_current))

(***************************************************************************)
(* Inputs of InterventionAgent.analyze enumerated by the model             *)
(***************************************************************************)
YouTube == <<"youtube", "com">>

\* Every dwell time up to MaxDwell ...
MaxDwell == 130
\* ... every interventions_today up to MaxInterventionsToday
MaxInterventionsToday == 3

Classifications == {"study", "distraction", "neutral"}

\* Confidences (thousandths) on both sides of the gate
GateConfidences == {299, 300, 800}

\* Risks (thousandths) a domain_risk_scores entry takes in the calls of
\* SpecIntervention
RiskValues == {0, 900, 1000}

BaseThresholds ==
    {NUDGE_THRESHOLD_SECONDS, WARN_THRESHOLD_SECONDS,
     SOFT_BLOCK_THRESHOLD_SECONDS, HARD_BLOCK_THRESHOLD_SECONDS}

\* ... and the dwell times around every adjusted threshold above MaxDwell
ThresholdPoints ==
    {AdjustedThreshold(b, r, s) : b \in BaseThresholds,
                                  r \in RiskValues \cup {500},
                                  s \in BOOLEAN}

DwellTimes ==
    (0..MaxDwell) \cup {t + d : t \in ThresholdPoints, d \in {-1, 0, 1}}

\* context_result dictionaries, with either field possibly missing
GateContexts ==
    {[classification |-> c, confidence |-> k] :
        c \in Classifications, k \in GateConfidences}
    \cup {[classification |-> c] : c \in Classifications}
    \cup {[confidence |-> k] : k \in GateConfidences}
    \cup {<<>>}

\* pattern_result dictionaries: no risk map, an empty one, one entry
GatePatterns ==
    {<<>>, [domain_risk_scores |-> <<>>]}
    \cup {[domain_risk_scores |-> <<[key |-> YouTube, value |-> r]>>] :
            r \in RiskValues}

InterventionInputs ==
    [context_result : GateContexts,
     pattern_result : GatePatterns,
     time_on_current_seconds : DwellTimes,
     current_domain : {NoDomain, YouTube},
     session_active : BOOLEAN,
     interventions_today : 0..MaxInterventionsToday]

(***************************************************************************)
(* PatternAgent (src/backend/agents/pattern_agent.py)                      *)
(*                                                                         *)
(* An event is modelled by the fields the agent reads:                     *)
(*   domain            the "domain" field (NoDomain when None or missing)  *)
(*   url               the hostname labels of "url" (<<>> when None)       *)
(*   duration_seconds  an integer                                          *)
(*   is_distraction    the truth value of the "is_distraction" field       *)
(*   hour              _hour_bucket(timestamp): 0..23, NoHour for a        *)
(*                     missing or unparseable timestamp                    *)
(* Ratios are carried in thousandths.                                      *)
(***************************************************************************)
\* DISTRACTION_DOMAINS of pattern_agent.py
PATTERN_DISTRACTION_DOMAINS ==
    {<<"youtube", "com">>, <<"facebook", "com">>, <<"twitter", "com">>,
     <<"x", "com">>, <<"instagram", "com">>, <<"tiktok", "com">>,
     <<"reddit", "com">>, <<"netflix", "com">>, <<"hulu", "com">>,
     <<"twitch", "tv">>, <<"9gag", "com">>, <<"buzzfeed", "com">>}

NoHour == -1

\* ev.get("domain") or _extract_domain(ev.get("url")); the _extract_domain
\* of pattern_agent.py is the function of context_agent.py
EventDomain(ev) ==
    IF ev.domain # NoDomain THEN ev.domain ELSE ExtractDomain(ev.url)

\* max(0, int(ev.get("duration_seconds", 0)))
EventDuration(ev) == Max(0, ev.duration_seconds)

\* ev.get("is_distraction") or domain in DISTRACTION_DOMAINS
EventIsDistraction_FlagOnly(ev) == ev.is_distraction

EventIsDistraction(ev) ==
    ev.is_distraction \/ EventDomain(ev) \in PATTERN_DISTRACTION_DOMAINS

\* The sum of the durations of a list of events
TotalDuration(events) ==
    SumSeq([i \in 1..Len(events) |-> EventDuration(events[i])])

\* The entries of a list in the order of their first occurrence: the key
\* order of a dict or Counter filled in that order
RECURSIVE Distinct(_)
Distinct(seq) ==
    IF seq = <<>> THEN <<>>
    ELSE LET front == Distinct(SubSeq(seq, 1, Len(seq) - 1))
             last == seq[Len(seq)]
         IN  IF \E i \in 1..Len(front) : front[i] = last
             THEN front ELSE Append(front, last)

\* All the lists that take their i-th entry from the i-th set
RECURSIVE SeqChoices(_)
SeqChoices(sets) ==
    IF sets = <<>> THEN {<<>>}
    ELSE {<<x>> \o rest : x \in Head(sets), rest \in SeqChoices(Tail(sets))}

\* sorted(items, key=value, reverse=True): a stable sort, so entries of
\* equal value keep their order
InsertByValueDesc(sorted, x) ==
    LET k == Cardinality({i \in 1..Len(sorted) : sorted[i].value >= x.value})
    IN  SubSeq(sorted, 1, k) \o <<x>> \o SubSeq(sorted, k + 1, Len(sorted))

RECURSIVE SortedByValueDesc(_)
SortedByValueDesc(items) ==
    IF items = <<>> THEN <<>>
    ELSE InsertByValueDesc(SortedByValueDesc(SubSeq(items, 1, Len(items) - 1)),
                           items[Len(items)])

\* seq[:n]
Prefix(seq, n) == SubSeq(seq, 1, Min(n, Len(seq)))

Keys(items) == [i \in 1..Len(items) |-> items[i].key]

(***************************************************************************)
(* PatternAgent._analyze_domain_risks(events): the dicts the call can      *)
(* return (one, unless a rounding tie decides), each a list of             *)
(* [key, value] in the order of the dict.                                  *)
(***************************************************************************)
DomainEvents(events, domain) ==
    SelectSeq(events, LAMBDA ev : EventDomain(ev) = domain)

AnalyzeDomainRisks(events) ==
    LET with_domain == SelectSeq(events, LAMBDA ev : EventDomain(ev) # NoDomain)
        domain_total == Distinct([i \in 1..Len(with_domain) |->
                                    EventDomain(with_domain[i])])
        total(d) == TotalDuration(DomainEvents(events, d))
        distraction(d) ==
            TotalDuration(SelectSeq(DomainEvents(events, d), EventIsDistraction))
        scored == SelectSeq(domain_total, LAMBDA d : total(d) > 0)
        values == SeqChoices([i \in 1..Len(scored) |->
                     Round3(1000 * distraction(scored[i]), total(scored[i]))])
    IN  {SortedByValueDesc([i \in 1..Len(scored) |->
                              [key |-> scored[i], value |-> v[i]]]) :
            v \in values}

(***************************************************************************)
(* PatternAgent._analyze_hourly_vulnerability(events): the dicts the call  *)
(* can return, each a function from the hours 0..23 to a ratio.            *)
(***************************************************************************)
AnalyzeHourlyVulnerability_NoHourIsMidnight(events) ==
    LET in_hour(h) == SelectSeq(events,
                        LAMBDA ev : ev.hour = h \/ (h = 0 /\ ev.hour = NoHour))
        total(h) == TotalDuration(in_hour(h))
        distraction(h) == TotalDuration(SelectSeq(in_hour(h), EventIsDistraction))
        values == SeqChoices([i \in 1..24 |->
                     IF total(i - 1) > 0
                     THEN Round3(1000 * distraction(i - 1), total(i - 1))
                     ELSE {0}])
    IN  {[h \in 0..23 |-> v[h + 1]] : v \in values}

AnalyzeHourlyVulnerability(events) ==
    LET in_hour(h) == SelectSeq(events, LAMBDA ev : ev.hour = h)
        total(h) == TotalDuration(in_hour(h))
        distraction(h) == TotalDuration(SelectSeq(in_hour(h), EventIsDistraction))
        values == SeqChoices([i \in 1..24 |->
                     IF total(i - 1) > 0
                     THEN Round3(1000 * distraction(i - 1), total(i - 1))
                     ELSE {0}])
    IN  {[h \in 0..23 |-> v[h + 1]] : v \in values}

\* The distraction events that have a domain, as the list of their domains
DistractionSequence(events) ==
    LET distr == SelectSeq(events,
                   LAMBDA ev : EventIsDistraction(ev) /\ EventDomain(ev) # NoDomain)
    IN  [i \in 1..Len(distr) |-> EventDomain(distr[i])]

\* The windows of k consecutive entries of a list, in order
Windows(sequence, k) ==
    [i \in 1..Max(0, Len(sequence) - k + 1) |-> SubSeq(sequence, i, i + k - 1)]

\* Counter.most_common(n) of the windows that are not one repeated domain:
\* [key, value] by descending count, equal counts in first-seen order
MostCommon(windows, n) ==
    LET counted == SelectSeq(windows,
                     LAMBDA w : \E i \in 1..Len(w) : w[i] # w[1])
        keys == Distinct(counted)
        count(w) == Cardinality({i \in 1..Len(counted) : counted[i] = w})
    IN  Prefix(SortedByValueDesc([i \in 1..Len(keys) |->
                  [key |-> keys[i], value |-> count(keys[i])]]), n)

DetectDistractionChains_PairsFirst(events) ==
    LET sequence == DistractionSequence(events)
        trigrams == MostCommon(Windows(sequence, 3), 5)
        bigrams == MostCommon(Windows(sequence, 2), 5)
    IN  IF Len(sequence) < 2 THEN <<>>
        ELSE Keys(SelectSeq(bigrams, LAMBDA b : b.value >= 3))
             \o Keys(SelectSeq(trigrams, LAMBDA t : t.value >= 2))

\* PatternAgent._detect_distraction_chains(events), min_chain_length = 2
DetectDistractionChains(events) ==
    LET sequence == DistractionSequence(events)
        trigrams == MostCommon(Windows(sequence, 3), 5)
        bigrams == MostCommon(Windows(sequence, 2), 5)
    IN  IF Len(sequence) < 2 THEN <<>>
        ELSE Keys(SelectSeq(trigrams, LAMBDA t : t.value >= 2))
             \o Keys(SelectSeq(bigrams, LAMBDA b : b.value >= 3))

\* round(num/den) of Python 3 for den > 0: to the nearest integer, a tie to
\* the even neighbour
RoundHalfEven(num, den) ==
    LET q == FloorDiv(num, den)
        rem == num - q * den
    IN  IF 2 * rem < den THEN q
        ELSE IF 2 * rem > den THEN q + 1
        ELSE IF q % 2 = 0 THEN q ELSE q + 1

\* PatternAgent._detect_long_dwells(events), threshold_seconds = 120: the
\* list of (domain, round(avg)) as [key, value]
DetectLongDwells(events) ==
    LET sequence == Distinct(DistractionSequence(events))
        durations(d) == SelectSeq(DomainEvents(events, d), EventIsDistraction)
        total(d) == TotalDuration(durations(d))
        long == SelectSeq(sequence,
                   LAMBDA d : total(d) >= 120 * Len(durations(d)))
    IN  SortedByValueDesc([i \in 1..Len(long) |->
            [key |-> long[i],
             value |-> RoundHalfEven(total(long[i]), Len(durations(long[i])))]])

\* data.get("events", [])
PatternEvents_MissingIsOneVisit(data) ==
    IF "events" \in DOMAIN data THEN data.events
    ELSE <<[domain |-> <<"youtube", "com">>, url |-> <<>>,
            duration_seconds |-> 10, is_distraction |-> TRUE, hour |-> 14]>>

\* data.get("events", [])
PatternEvents(data) == IF "events" \in DOMAIN data THEN data.events ELSE <<>>

HighRiskDomains_FromHalf(domain_risks) ==
    SelectSeq(domain_risks, LAMBDA e : e.value >= 500)

\* analyze, lines 135-137: the entries of domain_risks with a score > 0.6
HighRiskDomains(domain_risks) ==
    SelectSeq(domain_risks, LAMBDA e : e.value > 600)

EmptyPatternResult ==
    [patterns |-> <<>>, hourly_vulnerability |-> <<>>,
     domain_risk_scores |-> <<>>, distraction_chains |-> <<>>]

(***************************************************************************)
(* PatternAgent.analyze(data): the set of result dictionaries the call can *)
(* return.  The description of a pattern is modelled by the list it        *)
(* formats.                                                                *)
(***************************************************************************)
PatternAnalyze(data) ==
    LET events == PatternEvents(data)
        chains == DetectDistractionChains(events)
        long_dwell == DetectLongDwells(events)
        Results(hourly_vuln, domain_risks) ==
            LET vulnerable_hours ==
                    SelectSeq([i \in 1..24 |-> i - 1],
                              LAMBDA h : hourly_vuln[h] > 500)
                high_risk_domains == HighRiskDomains(domain_risks)
                time_patterns ==
                    IF vulnerable_hours = <<>> THEN {<<>>}
                    ELSE {<<[type |-> "time_vulnerability",
                             description |-> vulnerable_hours,
                             confidence |-> c,
                             data |-> vulnerable_hours]>> :
                            c \in Round3(SumSeq([i \in 1..Len(vulnerable_hours) |->
                                            hourly_vuln[vulnerable_hours[i]]]),
                                         Len(vulnerable_hours))}
                risk_patterns ==
                    IF high_risk_domains = <<>> THEN {<<>>}
                    ELSE {<<[type |-> "high_risk_domains",
                             description |-> Keys(Prefix(high_risk_domains, 5)),
                             confidence |-> c,
                             data |-> Prefix(high_risk_domains, 10)]>> :
                            c \in Round3(SumSeq([i \in 1..Len(high_risk_domains) |->
                                            high_risk_domains[i].value]),
                                         Len(high_risk_domains))}
                chain_patterns ==
                    IF chains = <<>> THEN <<>>
                    ELSE <<[type |-> "distraction_chain",
                            description |-> chains[1],
                            confidence |-> 700,
                            data |-> Prefix(chains, 5)]>>
                dwell_patterns ==
                    IF long_dwell = <<>> THEN <<>>
                    ELSE <<[type |-> "long_dwell",
                            description |-> Prefix(long_dwell, 3),
                            confidence |-> 800,
                            data |-> Prefix(long_dwell, 10)]>>
            IN  {[patterns |-> t \o r \o chain_patterns \o dwell_patterns,
                  hourly_vulnerability |-> hourly_vuln,
                  domain_risk_scores |-> domain_risks,
                  distraction_chains |-> chains] :
                    t \in time_patterns, r \in risk_patterns}
    IN  IF events = <<>> THEN {EmptyPatternResult}
        ELSE UNION {Results(hv, dr) :
                      hv \in AnalyzeHourlyVulnerability(events),
                      dr \in AnalyzeDomainRisks(events)}

(***************************************************************************)
(* Inputs of ContextAgent.analyze enumerated by the model                  *)
(***************************************************************************)
\* Keyword hits of a title range over 0..MaxHits (4 hits reach the cap 0.7)
MaxHits == 4
\* recent_domains has at most MaxRecent entries
MaxRecent == 2

GitHub == <<"github", "com">>
Facebook == <<"facebook", "com">>
PornHub == <<"pornhub", "com">>
Weather == <<"weather", "com">>

\* One exact and one subdomain hostname of every catalog, an uncatalogued
\* hostname and no hostname
ContextDomains ==
    {NoDomain, Weather,
     PornHub, <<"cdn">> \o PornHub,
     GitHub, <<"gist">> \o GitHub,
     YouTube, <<"m">> \o YouTube,
     Facebook, <<"m">> \o Facebook}

\* current_domain and current_url: the domain alone, the url alone, both
PageLocations ==
    {[current_domain |-> d, current_url |-> <<>>] : d \in ContextDomains}
    \cup {[current_domain |-> NoDomain, current_url |-> <<"www">> \o d] :
            d \in {YouTube, Facebook}}
    \cup {[current_domain |-> GitHub, current_url |-> <<"www">> \o Facebook]}

TitleWordSets == {{}, {"machine", "learning", "the"}}

EmptyTitle ==
    [length |-> "empty", adult |-> FALSE, study_hits |-> 0,
     distraction_hits |-> 0, words |-> {}]

\* Titles of 1..4 characters hold at most one keyword and no vocabulary word
ShortTitles ==
    {[length |-> "short", adult |-> a, study_hits |-> h[1],
      distraction_hits |-> h[2], words |-> {}] :
        a \in BOOLEAN, h \in {<<0, 0>>, <<1, 0>>, <<0, 1>>}}

LongTitles ==
    [length : {"long"}, adult : BOOLEAN, study_hits : 0..MaxHits,
     distraction_hits : 0..MaxHits, words : TitleWordSets]

Titles == {EmptyTitle} \cup ShortTitles \cup LongTitles

NoTopic == [present |-> FALSE, words |-> {}]

\* study_topic: None, only stop words, two words, four words; against the
\* title words the relevance is 0, 1 or 1/4
StudyTopics ==
    {NoTopic}
    \cup {[present |-> TRUE, words |-> w] :
            w \in {{"the"}, {"machine", "learning"},
                   {"machine", "vision", "deep", "networks"}}}

RECURSIVE SeqsUpTo(_, _)
SeqsUpTo(S, n) ==
    IF n = 0 THEN {<<>>}
    ELSE LET shorter == SeqsUpTo(S, n - 1)
         IN  shorter \cup {Append(q, x) : q \in shorter, x \in S}

\* Besides the short histories, two longer than the five entries
\* _score_trajectory keeps: the entry it drops is of the opposite kind to
\* the newest one
RecentDomainLists ==
    SeqsUpTo({GitHub, Facebook, Weather}, MaxRecent)
        \cup {<<Facebook, Weather, Weather, Weather, Weather, GitHub>>,
              <<GitHub, Weather, Weather, Weather, Weather, Facebook>>}

ContextInputs ==
    {[current_domain |-> loc.current_domain,
      current_url |-> loc.current_url,
      current_title |-> t,
      study_topic |-> topic,
      session_active |-> sa,
      recent_domains |-> rd] :
        loc \in PageLocations, t \in Titles, topic \in StudyTopics,
        sa \in BOOLEAN, rd \in RecentDomainLists}

(***************************************************************************)
(* CoordinatorAgent (src/backend/agents/coordinator.py)                    *)
(***************************************************************************)
\* data.get(key, default)
GetOr(data, key, default) ==
    IF key \in DOMAIN data THEN data[key] ELSE default

\* analyze, step 1: the dictionary given to PatternAgent.analyze
PatternData(data) ==
    [events |-> GetOr(data, "historical_events", <<>>)]

\* analyze, step 2: the dictionary given to ContextAgent.analyze.  A key
\* the request lacks is passed as None: no url, no title, no domain, no
\* study topic.
ContextData(data) ==
    [current_url |-> GetOr(data, "current_url", <<>>),
     current_title |-> GetOr(data, "current_title", EmptyTitle),
     current_domain |-> GetOr(data, "current_domain", NoDomain),
     study_topic |-> GetOr(data, "study_topic", NoTopic),
     session_active |-> GetOr(data, "session_active", FALSE),
     recent_domains |-> GetOr(data, "recent_domains", <<>>)]

\* analyze, step 3: the dictionary given to InterventionAgent.analyze
InterventionData_SessionDropped(data, context_result, pattern_result) ==
    [context_result |-> context_result,
     pattern_result |-> pattern_result,
     time_on_current_seconds |-> GetOr(data, "time_on_current_seconds", 0),
     current_domain |-> GetOr(data, "current_domain", NoDomain),
     session_active |-> FALSE,
     total_distraction_seconds_today |->
         GetOr(data, "total_distraction_seconds_today", 0),
     interventions_today |-> GetOr(data, "interventions_today", 0)]

InterventionData(data, context_result, pattern_result) ==
    [context_result |-> context_result,
     pattern_result |-> pattern_result,
     time_on_current_seconds |-> GetOr(data, "time_on_current_seconds", 0),
     current_domain |-> GetOr(data, "current_domain", NoDomain),
     session_active |-> GetOr(data, "session_active", FALSE),
     total_distraction_seconds_today |->
         GetOr(data, "total_distraction_seconds_today", 0),
     interventions_today |-> GetOr(data, "interventions_today", 0)]

\* analyze: the dictionary it returns
CoordinatorResult(intervention_result, context_result, pattern_result) ==
    [decision |-> intervention_result,
     context |-> context_result,
     patterns |-> pattern_result]

(***************************************************************************)
(* Inputs of PatternAgent.analyze enumerated by the model                  *)
(***************************************************************************)
\* A history has at most MaxEvents events
MaxEvents == 4

Reddit == <<"reddit", "com">>

Event(domain, url, duration_seconds, is_distraction, hour) ==
    [domain |-> domain, url |-> url, duration_seconds |-> duration_seconds,
     is_distraction |-> is_distraction, hour |-> hour]

\* The events of the histories: a domain outside DISTRACTION_DOMAINS with the
\* flag unset and set, a domain of DISTRACTION_DOMAINS with the flag unset,
\* one found through the url, durations of zero and below, an event without
\* domain and url, events without timestamp
EventSamples ==
    {Event(GitHub, <<>>, 10, FALSE, 9),
     Event(GitHub, <<>>, 20, TRUE, 9),
     Event(YouTube, <<>>, 10, FALSE, 14),
     Event(NoDomain, <<"www">> \o Reddit, 130, FALSE, 14),
     Event(Weather, <<>>, 0, FALSE, NoHour),
     Event(Weather, <<>>, -5, TRUE, 9),
     Event(Weather, <<>>, 20, TRUE, 22),
     Event(NoDomain, <<>>, 10, TRUE, 14),
     Event(Facebook, <<"www">> \o GitHub, 130, FALSE, NoHour)}

\* Histories of visits to distraction domains have at most MaxChainEvents
\* events
MaxChainEvents == 7

Instagram == <<"instagram", "com">>

\* A visit of 10 seconds to a domain of DISTRACTION_DOMAINS
Visit(domain) == Event(domain, <<>>, 10, FALSE, 14)

\* Every history of visits to youtube.com and reddit.com: from 5 visits on a
\* trigram can occur twice, from 6 on a pair three times
ChainHistories ==
    SeqsUpTo({Visit(YouTube), Visit(Reddit)}, MaxChainEvents)

\* youtube, reddit, instagram, three times over
RepeatedChain ==
    [i \in 1..9 |-> Visit(<<YouTube, Reddit, Instagram>>[((i - 1) % 3) + 1])]

\* 19 visits in which seven trigrams occur twice or more and all six pairs
\* three times or more, so that most_common(5) cuts both lists
ManyChainDomains ==
    <<Reddit, Instagram, Reddit, YouTube, Instagram, YouTube, Reddit,
      Instagram, Reddit, YouTube, Instagram, Reddit, YouTube, Instagram,
      YouTube, Reddit, Instagram, YouTube, Reddit>>

ManyChains == [i \in 1..Len(ManyChainDomains) |-> Visit(ManyChainDomains[i])]

\* One domain with 90 of its 100 seconds flagged as distraction
RatioHistory ==
    <<Event(Weather, <<>>, 90, TRUE, 9), Event(Weather, <<>>, 10, FALSE, 9)>>

\* The data dictionaries: without the key "events", and with every history
PatternInputs ==
    {<<>>}
        \cup {[events |-> h] : h \in SeqsUpTo(EventSamples, MaxEvents)}
        \cup {[events |-> h] : h \in ChainHistories}
        \cup {[events |-> h] : h \in {RepeatedChain, ManyChains, RatioHistory}}

(***************************************************************************)
(* Inputs of CoordinatorAgent.analyze enumerated by the model              *)
(***************************************************************************)
\* historical_events has at most MaxHistory events
MaxHistory == 2

CoordinatorEvents ==
    {Event(YouTube, <<>>, 10, FALSE, 14),
     Event(GitHub, <<>>, 20, TRUE, 9),
     Event(GitHub, <<>>, 10, FALSE, 9)}

\* The page: youtube.com by its domain and by its url only, facebook.com
CoordinatorLocations ==
    {[current_domain |-> YouTube, current_url |-> <<>>],
     [current_domain |-> NoDomain, current_url |-> <<"www">> \o YouTube],
     [current_domain |-> Facebook, current_url |-> <<>>]}

\* No title, a title with two distraction keywords, one with two study
\* keywords
CoordinatorTitles ==
    {EmptyTitle,
     [length |-> "long", adult |-> FALSE, study_hits |-> 0,
      distraction_hits |-> 2, words |-> {}],
     [length |-> "long", adult |-> FALSE, study_hits |-> 2,
      distraction_hits |-> 0, words |-> {}]}

\* Dwell times below, between and above the adjusted thresholds
CoordinatorDwellTimes == {10, 100, 700}

\* A request with every key, and one with the keys of the page only
CoordinatorInputs ==
    {[current_url |-> loc.current_url,
      current_title |-> t,
      current_domain |-> loc.current_domain,
      time_on_current_seconds |-> dwell,
      study_topic |-> NoTopic,
      session_active |-> sa,
      recent_domains |-> rd,
      historical_events |-> h,
      total_distraction_seconds_today |-> 300,
      interventions_today |-> n] :
        loc \in CoordinatorLocations, t \in CoordinatorTitles,
        dwell \in CoordinatorDwellTimes, sa \in BOOLEAN,
        rd \in {<<>>, <<Facebook>>},
        h \in SeqsUpTo(CoordinatorEvents, MaxHistory), n \in 0..1}
    \cup {[current_domain |-> Facebook, current_title |-> t] :
            t \in CoordinatorTitles}
    \* facebook.com after three other pages and github.com: the signals
    \* -0.8, 0.0 and 0.2, whose double mean lies just below -0.2
    \cup {[current_domain |-> Facebook,
           recent_domains |-> <<Weather, Weather, Weather, GitHub>>,
           time_on_current_seconds |-> dwell] :
            dwell \in CoordinatorDwellTimes}

NoInput == <<>>

NoResult ==
    [classification |-> "neutral", confidence |-> 0, topic_relevance |-> 0,
     context_score |-> 0, reasons |-> <<>>, is_adult |-> FALSE]

(***************************************************************************)
(* State machine of one InterventionAgent.analyze call: the caller builds  *)
(* the data dictionary (Init), analyze returns the decision.               *)
(***************************************************************************)
InitIntervention ==
    /\ op = "intervention:called"
    /\ iv_in \in InterventionInputs
    /\ iv_out = NoDecision(0)
    /\ cx_in = NoInput
    /\ cx_gemini = "unavailable"
    /\ cx_out = NoResult
    /\ pt_in = NoInput
    /\ pt_out = EmptyPatternResult
    /\ co_in = NoInput
    /\ co_out = NoInput
    /\ co_calls = <<>>
    /\ interventions = <<>>
    /\ checks = <<>>
    /\ checked = <<>>
    /\ sessions = <<>>
    /\ session_reqs = <<>>
    /\ sd_in = NoDomain
    /\ sd_out = 0
    /\ memo = <<>>
    /\ reqs = <<>>

\* InterventionAgent.analyze runs to its return statement
InterventionReturn ==
    /\ op = "intervention:called"
    /\ op' = "intervention:returned"
    /\ iv_out' = InterventionAnalyze(iv_in)
    /\ UNCHANGED <<iv_in, cx_in, cx_gemini, cx_out, pt_in, pt_out,
                   co_in, co_out, co_calls, memo, reqs, sd_in, sd_out,
                   interventions, checks, checked, sessions, session_reqs>>

NextIntervention == InterventionReturn

SpecIntervention == InitIntervention /\ [][NextIntervention]_vars

(***************************************************************************)
(* The same call over every risk a domain_risk_scores entry can carry      *)
(* (0.000 .. 1.000, and no entry), with and without a session, for a       *)
(* context that passes the gate, at no dwell time and at the dwell times   *)
(* one second below, at and above each adjusted threshold of that risk.    *)
(***************************************************************************)
InitEscalation ==
    /\ op = "intervention:called"
    /\ \E pattern \in {<<>>} \cup
                        {[domain_risk_scores |-> <<[key |-> YouTube, value |-> r]>>] :
                           r \in 0..1000},
          session \in BOOLEAN :
          \E dwell \in {0} \cup
                        {AdjustedThreshold(
                             b,
                             IF pattern = <<>> THEN 500
                             ELSE pattern.domain_risk_scores[1].value,
                             session) + d :
                           b \in BaseThresholds, d \in {-1, 0, 1}} :
             iv_in = [context_result |-> [classification |-> "distraction",
                                          confidence |-> 800],
                      pattern_result |-> pattern,
                      time_on_current_seconds |-> dwell,
                      current_domain |-> YouTube,
                      session_active |-> session,
                      interventions_today |-> 0]
    /\ iv_out = NoDecision(0)
    /\ cx_in = NoInput
    /\ cx_gemini = "unavailable"
    /\ cx_out = NoResult
    /\ pt_in = NoInput
    /\ pt_out = EmptyPatternResult
    /\ co_in = NoInput
    /\ co_out = NoInput
    /\ co_calls = <<>>
    /\ interventions = <<>>
    /\ checks = <<>>
    /\ checked = <<>>
    /\ sessions = <<>>
    /\ session_reqs = <<>>
    /\ sd_in = NoDomain
    /\ sd_out = 0
    /\ memo = <<>>
    /\ reqs = <<>>

SpecEscalation == InitEscalation /\ [][NextIntervention]_vars

(***************************************************************************)
(* State machine of one ContextAgent.analyze call.  The call is made with  *)
(* a data dictionary in an environment cx_gemini: "unavailable" when       *)
(* google.genai is not importable or GEMINI_API_KEY is unset, otherwise    *)
(* what the semantic classifier does when it is called.                    *)
(***************************************************************************)
\* The environments that make a difference to a call: the classifier is
\* looked at only for a domain in MIXED_DOMAINS
GeminiEnvironments(data) ==
    IF CxDomain(data) \in MIXED_DOMAINS
    THEN {"unavailable"} \cup GeminiAnswers
    ELSE {"unavailable"}

InitContext ==
    /\ op = "context:called"
    /\ cx_in \in ContextInputs
    /\ cx_gemini \in GeminiEnvironments(cx_in)
    /\ cx_out = NoResult
    /\ iv_in = NoInput
    /\ iv_out = NoDecision(0)
    /\ pt_in = NoInput
    /\ pt_out = EmptyPatternResult
    /\ co_in = NoInput
    /\ co_out = NoInput
    /\ co_calls = <<>>
    /\ interventions = <<>>
    /\ checks = <<>>
    /\ checked = <<>>
    /\ sessions = <<>>
    /\ session_reqs = <<>>
    /\ sd_in = NoDomain
    /\ sd_out = 0
    /\ memo = <<>>
    /\ reqs = <<>>

\* ContextAgent.analyze runs to its return statement
ContextReturn ==
    /\ op = "context:called"
    /\ cx_out' \in ContextAnalyze(cx_in, cx_gemini)
    /\ op' = "context:returned"
    /\ UNCHANGED <<cx_in, cx_gemini, iv_in, iv_out, pt_in, pt_out,
                   co_in, co_out, co_calls, memo, reqs, sd_in, sd_out,
                   interventions, checks, checked, sessions, session_reqs>>

NextContext == ContextReturn

SpecContext == InitContext /\ [][NextContext]_vars

(***************************************************************************)
(* State machine of one PatternAgent.analyze call                          *)
(***************************************************************************)
InitPattern ==
    /\ op = "pattern:called"
    /\ pt_in \in PatternInputs
    /\ pt_out = EmptyPatternResult
    /\ cx_in = NoInput
    /\ cx_gemini = "unavailable"
    /\ cx_out = NoResult
    /\ iv_in = NoInput
    /\ iv_out = NoDecision(0)
    /\ co_in = NoInput
    /\ co_out = NoInput
    /\ co_calls = <<>>
    /\ interventions = <<>>
    /\ checks = <<>>
    /\ checked = <<>>
    /\ sessions = <<>>
    /\ session_reqs = <<>>
    /\ sd_in = NoDomain
    /\ sd_out = 0
    /\ memo = <<>>
    /\ reqs = <<>>

\* PatternAgent.analyze runs to its return statement
PatternReturn ==
    /\ op = "pattern:called"
    /\ pt_out' \in PatternAnalyze(pt_in)
    /\ op' = "pattern:returned"
    /\ UNCHANGED <<pt_in, cx_in, cx_gemini, cx_out, iv_in, iv_out,
                   co_in, co_out, co_calls, memo, reqs, sd_in, sd_out,
                   interventions, checks, checked, sessions, session_reqs>>

NextPattern == PatternReturn

SpecPattern == InitPattern /\ [][NextPattern]_vars

(***************************************************************************)
(* State machine of one CoordinatorAgent.analyze call: the three agent     *)
(* calls one after the other, then the return.  pt_in, cx_in and iv_in     *)
(* hold the dictionary each agent was given, pt_out, cx_out and iv_out     *)
(* what it returned.                                                       *)
(***************************************************************************)
InitCoordinator ==
    /\ op = "coordinator:called"
    /\ co_in \in CoordinatorInputs
    /\ cx_gemini \in GeminiEnvironments(ContextData(co_in))
    /\ co_out = NoInput
    /\ co_calls = <<>>
    /\ interventions = <<>>
    /\ checks = <<>>
    /\ checked = <<>>
    /\ sessions = <<>>
    /\ session_reqs = <<>>
    /\ sd_in = NoDomain
    /\ sd_out = 0
    /\ memo = <<>>
    /\ reqs = <<>>
    /\ pt_in = NoInput
    /\ pt_out = EmptyPatternResult
    /\ cx_in = NoInput
    /\ cx_out = NoResult
    /\ iv_in = NoInput
    /\ iv_out = NoDecision(0)

\* Step 1: pattern_result = self._pattern_agent.analyze({...})
CoordinatorCallsPattern ==
    /\ op = "coordinator:called"
    /\ pt_in' = PatternData(co_in)
    /\ pt_out' \in PatternAnalyze(PatternData(co_in))
    /\ co_calls' = Append(co_calls, "pattern")
    /\ op' = "coordinator:step2"
    /\ UNCHANGED <<co_in, co_out, cx_in, cx_gemini, cx_out, iv_in, iv_out,
                   memo, reqs, sd_in, sd_out,
                   interventions, checks, checked, sessions, session_reqs>>

\* Step 2: context_result = self._context_agent.analyze({...})
CoordinatorCallsContext ==
    /\ op = "coordinator:step2"
    /\ cx_in' = ContextData(co_in)
    /\ cx_out' \in ContextAnalyze(ContextData(co_in), cx_gemini)
    /\ co_calls' = Append(co_calls, "context")
    /\ op' = "coordinator:step3"
    /\ UNCHANGED <<co_in, co_out, cx_gemini, pt_in, pt_out, iv_in, iv_out,
                   memo, reqs, sd_in, sd_out,
                   interventions, checks, checked, sessions, session_reqs>>

\* Step 3: intervention_result = self._intervention_agent.analyze({...})
CoordinatorCallsIntervention ==
    /\ op = "coordinator:step3"
    /\ iv_in' = InterventionData(co_in, cx_out, pt_out)
    /\ iv_out' = InterventionAnalyze(InterventionData(co_in, cx_out, pt_out))
    /\ co_calls' = Append(co_calls, "intervention")
    /\ op' = "coordinator:return"
    /\ UNCHANGED <<co_in, co_out, cx_in, cx_gemini, cx_out, pt_in, pt_out,
                   memo, reqs, sd_in, sd_out,
                   interventions, checks, checked, sessions, session_reqs>>

\* return {"decision": ..., "context": ..., "patterns": ...}
CoordinatorReturn ==
    /\ op = "coordinator:return"
    /\ co_out' = CoordinatorResult(iv_out, cx_out, pt_out)
    /\ op' = "coordinator:returned"
    /\ UNCHANGED <<co_in, co_calls, cx_in, cx_gemini, cx_out, pt_in, pt_out,
                   iv_in, iv_out, memo, reqs, sd_in, sd_out,
                   interventions, checks, checked, sessions, session_reqs>>

NextCoordinator ==
    \/ CoordinatorCallsPattern
    \/ CoordinatorCallsContext
    \/ CoordinatorCallsIntervention
    \/ CoordinatorReturn

SpecCoordinator == InitCoordinator /\ [][NextCoordinator]_vars

(***************************************************************************)
(* The semantic classifier behind its memo cache.                          *)
(* _ask_gemini_classification is decorated with @lru_cache(maxsize=500)    *)
(* (context_agent.py line 286).  The decorator sits on a method, so the    *)
(* one cache belongs to the function and is shared by every ContextAgent,  *)
(* and an entry is keyed by the arguments of the call: (self, title).      *)
(* functools.lru_cache is thread-safe: the lookup and the insertion are    *)
(* each atomic, and the decorated function runs between them without the   *)
(* cache's lock, so two calls that miss on one key both run the function.  *)
(* generate_content is called without a timeout (lines 301-308): the call  *)
(* returns when the collaborator answers or fails, and not before.         *)
(***************************************************************************)
\* Entries the cache of the model holds at most; maxsize is 500 in the
\* program, and the model's keys outnumber the model's capacity as the
\* titles of a deployment outnumber 500
CacheCapacity == 2

\* The ContextAgent objects of the server: routes/events.py line 17 and the
\* coordinator's (coordinator.py line 65) of routes/interventions.py line 17
ContextAgents == {"events", "coordinator"}

\* The requests the server works on at the same time
Requests == {"r1", "r2"}

\* lru_cache keys an entry by the positional arguments: self and title
CacheKey(agent, title) == [agent |-> agent, title |-> title]

\* The position of the entry of key in the cache, 0 when there is none
CacheIndex(cache, key) ==
    IF \E i \in 1..Len(cache) : cache[i].key = key
    THEN CHOOSE i \in 1..Len(cache) : cache[i].key = key
    ELSE 0

\* A hit moves the entry to the most recently used end
CacheTouch(cache, key) ==
    LET i == CacheIndex(cache, key)
    IN  SubSeq(cache, 1, i - 1) \o SubSeq(cache, i + 1, Len(cache))
            \o <<cache[i]>>

CacheStore_NoEviction(cache, entry) ==
    IF CacheIndex(cache, entry.key) # 0 THEN cache ELSE Append(cache, entry)

\* After the function has returned: a key that another call has stored in
\* the meantime is left alone, a full cache drops its oldest entry
CacheStore(cache, entry) ==
    IF CacheIndex(cache, entry.key) # 0 THEN cache
    ELSE IF Len(cache) >= CacheCapacity THEN Append(Tail(cache), entry)
    ELSE Append(cache, entry)

\* Two exact titles: one of 5 characters or more, one shorter
ClassifierTitles ==
    {[length |-> "long", adult |-> FALSE, study_hits |-> 0,
      distraction_hits |-> 2, words |-> {}],
     [length |-> "short", adult |-> FALSE, study_hits |-> 1,
      distraction_hits |-> 0, words |-> {}]}

\* analyze is called for a page of an ambiguous (MIXED_DOMAINS) domain
ClassifierInputs ==
    {[current_domain |-> YouTube, current_url |-> <<>>, current_title |-> t,
      study_topic |-> NoTopic, session_active |-> FALSE,
      recent_domains |-> <<>>] : t \in ClassifierTitles}

(***************************************************************************)
(* One request: a ContextAgent.analyze call in a thread of the server.     *)
(*   pc            "idle", "called", "waiting" (generate_content is in     *)
(*                 flight), "computed" (the function body has its return   *)
(*                 value), "returned"                                      *)
(*   available     genai is importable and GEMINI_API_KEY is set           *)
(*   answer        what the collaborator did for this call, if called      *)
(*   label         the value of _ask_gemini_classification(title)          *)
(*   title_score   the local of analyze, in sixtieths                      *)
(*   result        the dictionary analyze returns                          *)
(* and, for the record only:                                               *)
(*   invoked       this call has sent the title to the collaborator        *)
(*   computed_for  the title the label was computed for                    *)
(*   cached_before the labels the cache held for this exact title, under   *)
(*                 any ContextAgent, when this call looked its key up      *)
(***************************************************************************)
IdleRequest ==
    [pc |-> "idle", agent |-> "events", data |-> NoInput, available |-> FALSE,
     answer |-> "none", label |-> "none", title_score |-> 0,
     result |-> NoResult, invoked |-> FALSE, computed_for |-> EmptyTitle,
     cached_before |-> {}]

InitClassifier ==
    /\ op = "classifier:serving"
    /\ memo = <<>>
    /\ reqs = [r \in Requests |-> IdleRequest]
    /\ cx_in = NoInput
    /\ cx_gemini = "unavailable"
    /\ cx_out = NoResult
    /\ iv_in = NoInput
    /\ iv_out = NoDecision(0)
    /\ pt_in = NoInput
    /\ pt_out = EmptyPatternResult
    /\ co_in = NoInput
    /\ co_out = NoInput
    /\ co_calls = <<>>
    /\ interventions = <<>>
    /\ checks = <<>>
    /\ checked = <<>>
    /\ sessions = <<>>
    /\ session_reqs = <<>>
    /\ sd_in = NoDomain
    /\ sd_out = 0

\* A request arrives and its thread calls agent.analyze(data)
RequestArrives(r) ==
    /\ reqs[r].pc \in {"idle", "returned"}
    /\ \E a \in ContextAgents, d \in ClassifierInputs, av \in BOOLEAN :
         reqs' = [reqs EXCEPT ![r] =
                    [IdleRequest EXCEPT !.pc = "called", !.agent = a,
                                        !.data = d, !.available = av]]
    /\ UNCHANGED <<op, memo, cx_in, cx_gemini, cx_out, iv_in, iv_out,
                   pt_in, pt_out, co_in, co_out, co_calls, sd_in, sd_out,
                   interventions, checks, checked, sessions, session_reqs>>

\* analyze, line 161 false: the classifier is not configured, the title is
\* scored by the regex and analyze runs to its return statement
AnalyzeWithoutClassifier(r) ==
    LET q == reqs[r]
    IN  /\ q.pc = "called"
        /\ ~q.available
        /\ \E res \in ContextAnalyze(q.data, "unavailable") :
             reqs' = [reqs EXCEPT ![r] =
                        [q EXCEPT !.pc = "returned",
                                  !.title_score =
                                      TitleScore(CxDomain(q.data),
                                                 q.data.current_title,
                                                 "unavailable"),
                                  !.result = res]]
        /\ UNCHANGED <<op, memo, cx_in, cx_gemini, cx_out, iv_in, iv_out,
                       pt_in, pt_out, co_in, co_out, co_calls, sd_in, sd_out,
                   interventions, checks, checked, sessions, session_reqs>>

\* analyze, line 162: self._ask_gemini_classification(title) enters the
\* lru_cache wrapper, which looks the key up.  On a hit the cached label is
\* the value of the call and analyze runs to its return statement.  On a
\* miss the function body starts: a title of fewer than 5 characters has
\* its value at once (line 289), any other is sent to the collaborator.
CacheLookup(r) ==
    LET q == reqs[r]
        title == q.data.current_title
        key == CacheKey(q.agent, title)
        i == CacheIndex(memo, key)
        before == {memo[j].value :
                     j \in {k \in 1..Len(memo) : memo[k].key.title = title}}
    IN  /\ q.pc = "called"
        /\ q.available
        /\ AsksGemini(CxDomain(q.data), "configured")
        /\ IF i # 0
           THEN /\ memo' = CacheTouch(memo, key)
                /\ \E res \in ContextAnalyze(q.data, memo[i].value) :
                     reqs' = [reqs EXCEPT ![r] =
                                [q EXCEPT !.pc = "returned",
                                          !.label = memo[i].value,
                                          !.computed_for = memo[i].computed_for,
                                          !.cached_before = before,
                                          !.title_score =
                                              TitleScore(CxDomain(q.data), title,
                                                         memo[i].value),
                                          !.result = res]]
           ELSE /\ memo' = memo
                /\ reqs' = [reqs EXCEPT ![r] =
                     IF title.length \in {"empty", "short"}
                     THEN [q EXCEPT !.pc = "computed",
                                    !.label = AskGeminiClassification(title, "none"),
                                    !.computed_for = title,
                                    !.cached_before = before]
                     ELSE [q EXCEPT !.pc = "waiting",
                                    !.invoked = TRUE,
                                    !.cached_before = before]]
        /\ UNCHANGED <<op, cx_in, cx_gemini, cx_out, iv_in, iv_out,
                       pt_in, pt_out, co_in, co_out, co_calls, sd_in, sd_out,
                   interventions, checks, checked, sessions, session_reqs>>

\* The collaborator answers the call in flight, or the call fails; lines
\* 310-317 make the label of it
ClassifierAnswers(r) ==
    LET q == reqs[r]
    IN  /\ q.pc = "waiting"
        /\ \E a \in GeminiAnswers :
             reqs' = [reqs EXCEPT ![r] =
                        [q EXCEPT !.pc = "computed",
                                  !.answer = a,
                                  !.label =
                                      AskGeminiClassification(
                                          q.data.current_title, a),
                                  !.computed_for = q.data.current_title]]
        /\ UNCHANGED <<op, memo, cx_in, cx_gemini, cx_out, iv_in, iv_out,
                       pt_in, pt_out, co_in, co_out, co_calls, sd_in, sd_out,
                   interventions, checks, checked, sessions, session_reqs>>

\* The function body has returned: the wrapper stores the label and analyze
\* runs to its return statement
CacheStoreAndReturn(r) ==
    LET q == reqs[r]
        title == q.data.current_title
    IN  /\ q.pc = "computed"
        /\ memo' = CacheStore(memo, [key |-> CacheKey(q.agent, title),
                                     value |-> q.label,
                                     computed_for |-> q.computed_for])
        /\ \E res \in ContextAnalyze(q.data, q.label) :
             reqs' = [reqs EXCEPT ![r] =
                        [q EXCEPT !.pc = "returned",
                                  !.title_score =
                                      TitleScore(CxDomain(q.data), title, q.label),
                                  !.result = res]]
        /\ UNCHANGED <<op, cx_in, cx_gemini, cx_out, iv_in, iv_out,
                       pt_in, pt_out, co_in, co_out, co_calls, sd_in, sd_out,
                   interventions, checks, checked, sessions, session_reqs>>

NextClassifier ==
    \E r \in Requests :
        \/ RequestArrives(r)
        \/ AnalyzeWithoutClassifier(r)
        \/ CacheLookup(r)
        \/ ClassifierAnswers(r)
        \/ CacheStoreAndReturn(r)

SpecClassifier == InitClassifier /\ [][NextClassifier]_vars

\* Every thread of the server gets to run: a step of the program that can
\* be taken is taken.  Nothing makes a request arrive, and nothing makes
\* the collaborator answer.
SpecClassifierFair ==
    /\ SpecClassifier
    /\ \A r \in Requests :
         /\ WF_vars(AnalyzeWithoutClassifier(r))
         /\ WF_vars(CacheLookup(r))
         /\ WF_vars(CacheStoreAndReturn(r))

(***************************************************************************)
(* State machine of one ContextAgent._score_domain call                    *)
(***************************************************************************)
\* Every hostname of the four catalogs, each with one and with two labels
\* in front of it, no hostname, and hostnames that match nothing: an
\* uncatalogued one, a bare suffix, a catalog hostname with another letter
\* in front and a catalog hostname followed by another registered domain
ScoreDomainInputs ==
    LET catalogued == ADULT_DOMAINS \cup STUDY_DOMAINS \cup MIXED_DOMAINS
                          \cup DISTRACTION_DOMAINS
    IN  catalogued
            \cup {<<"m">> \o d : d \in catalogued}
            \cup {<<"a", "m">> \o d : d \in ADULT_DOMAINS \cup MIXED_DOMAINS}
            \cup {NoDomain, Weather, <<"com">>, <<"notgithub", "com">>,
                  <<"github", "com", "evil", "org">>}

InitScoreDomain ==
    /\ op = "score_domain:called"
    /\ sd_in \in ScoreDomainInputs
    /\ sd_out = 0
    /\ memo = <<>>
    /\ reqs = <<>>
    /\ cx_in = NoInput
    /\ cx_gemini = "unavailable"
    /\ cx_out = NoResult
    /\ iv_in = NoInput
    /\ iv_out = NoDecision(0)
    /\ pt_in = NoInput
    /\ pt_out = EmptyPatternResult
    /\ co_in = NoInput
    /\ co_out = NoInput
    /\ co_calls = <<>>
    /\ interventions = <<>>
    /\ checks = <<>>
    /\ checked = <<>>
    /\ sessions = <<>>
    /\ session_reqs = <<>>

\* _score_domain runs to one of its return statements
ScoreDomainReturn ==
    /\ op = "score_domain:called"
    /\ op' = "score_domain:returned"
    /\ sd_out' = ScoreDomain(sd_in)
    /\ UNCHANGED <<sd_in, memo, reqs, cx_in, cx_gemini, cx_out, iv_in, iv_out,
                   pt_in, pt_out, co_in, co_out, co_calls,
                   interventions, checks, checked, sessions, session_reqs>>

NextScoreDomain == ScoreDomainReturn

SpecScoreDomain == InitScoreDomain /\ [][NextScoreDomain]_vars

(***************************************************************************)
(* POST /interventions/check (src/backend/api/routes/interventions.py).    *)
(* The route is a plain function, which the server runs in a thread per    *)
(* request, so two checks can be in progress at once.  The handler first   *)
(* queries the database (today's events, then today's Intervention rows    *)
(* of the user), then runs the coordinator, inserts a row when the         *)
(* decision intervenes, commits and answers.  The browsing_events table    *)
(* has no row of today in this model, and the requests carry no            *)
(* session_id.                                                             *)
(*   checks[r]   pc "idle" or "counted", the user, the request body, the   *)
(*               count it read, and for the record the arrival number of   *)
(*               the request and how many checks had been answered when    *)
(*               it counted                                                *)
(*   checked     one entry per answered check: the above and the response  *)
(***************************************************************************)
\* The most checks that arrive in a run
MaxChecks == 4

\* The user and the body of a request: a study page, a distraction page
\* seen for 30 seconds (nudge level) and for 100 seconds (warn level)
CheckInputs ==
    [user : {"u1", "u2"},
     request : {[current_domain |-> GitHub, time_on_current_seconds |-> 30],
                [current_domain |-> Facebook, time_on_current_seconds |-> 30],
                [current_domain |-> Facebook, time_on_current_seconds |-> 100]}]

InitCheckRoute ==
    /\ op = "check:serving"
    /\ interventions = <<>>
    /\ checks = [r \in Requests |->
                   [pc |-> "idle", user |-> "u1",
                    request |-> [current_domain |-> GitHub,
                                 time_on_current_seconds |-> 30],
                    interventions_today |-> 0, arrival |-> 0,
                    answered_before |-> 0]]
    /\ checked = <<>>
    /\ sessions = <<>>
    /\ session_reqs = <<>>
    /\ iv_in = NoInput
    /\ iv_out = NoDecision(0)
    /\ cx_in = NoInput
    /\ cx_gemini = "unavailable"
    /\ cx_out = NoResult
    /\ pt_in = NoInput
    /\ pt_out = EmptyPatternResult
    /\ co_in = NoInput
    /\ co_out = NoInput
    /\ co_calls = <<>>
    /\ sd_in = NoDomain
    /\ sd_out = 0
    /\ memo = <<>>
    /\ reqs = <<>>

\* check_intervention, lines 30-76: a request arrives and its handler runs
\* the queries; interventions_today is the number of rows of the user
CheckCounts(r) ==
    LET arrived == Len(checked)
                   + Cardinality({q \in Requests : checks[q].pc = "counted"})
    IN  /\ checks[r].pc = "idle"
        /\ arrived < MaxChecks
        /\ \E in \in CheckInputs :
             checks' = [checks EXCEPT ![r] =
                          [pc |-> "counted", user |-> in.user,
                           request |-> in.request,
                           interventions_today |->
                               Len(SelectSeq(interventions,
                                             LAMBDA row : row.user_id = in.user)),
                           arrival |-> arrived + 1,
                           answered_before |-> Len(checked)]]
        /\ UNCHANGED <<op, interventions, checked, sessions, session_reqs,
                       iv_in, iv_out, cx_in, cx_gemini, cx_out, pt_in, pt_out,
                       co_in, co_out, co_calls, memo, reqs, sd_in, sd_out>>

\* check_intervention, lines 79-115: the coordinator decides, the row is
\* inserted and committed when the decision intervenes, the response is sent
CheckAnswers(r) ==
    LET q == checks[r]
        data == [current_url |-> <<>>,
                 current_title |-> EmptyTitle,
                 current_domain |-> q.request.current_domain,
                 time_on_current_seconds |-> q.request.time_on_current_seconds,
                 study_topic |-> NoTopic,
                 session_active |-> FALSE,
                 recent_domains |-> <<>>,
                 historical_events |-> <<>>,
                 total_distraction_seconds_today |-> 0,
                 interventions_today |-> q.interventions_today]
    IN  /\ q.pc = "counted"
        /\ \E pattern_result \in PatternAnalyze(PatternData(data)),
              context_result \in ContextAnalyze(ContextData(data), "unavailable") :
             LET decision ==
                     InterventionAnalyze(
                         InterventionData(data, context_result, pattern_result))
             IN  /\ interventions' =
                        IF decision.should_intervene
                        THEN Append(interventions,
                                    [user_id |-> q.user, level |-> decision.level])
                        ELSE interventions
                 /\ checked' =
                        Append(checked,
                               [user |-> q.user,
                                arrival |-> q.arrival,
                                answered_before |-> q.answered_before,
                                interventions_today |-> q.interventions_today,
                                should_intervene |-> decision.should_intervene,
                                level |-> decision.level,
                                message |-> decision.message])
        /\ checks' = [checks EXCEPT ![r].pc = "idle"]
        /\ UNCHANGED <<op, sessions, session_reqs,
                       iv_in, iv_out, cx_in, cx_gemini, cx_out, pt_in, pt_out,
                       co_in, co_out, co_calls, memo, reqs, sd_in, sd_out>>

NextCheckRoute == \E r \in Requests : CheckCounts(r) \/ CheckAnswers(r)

SpecCheckRoute == InitCheckRoute /\ [][NextCheckRoute]_vars

(***************************************************************************)
(* POST /sessions/start and /sessions/end                                  *)
(* (src/backend/api/routes/sessions.py), plain functions run in a thread   *)
(* per request.  A row of study_sessions is [is_active, ended_at], its id  *)
(* its position; ended_at is "None" or "utcnow".  start_session queries    *)
(* the active sessions, then ends the ones it found and inserts the new    *)
(* one in one commit.                                                      *)
(*   session_reqs[r]  pc "idle" or "queried", and the ids the query found  *)
(***************************************************************************)
\* The most sessions that are started in a run
MaxSessions == 4

InitSessions ==
    /\ op = "sessions:serving"
    /\ sessions = <<>>
    /\ session_reqs = [r \in Requests |-> [pc |-> "idle", active |-> {}]]
    /\ interventions = <<>>
    /\ checks = <<>>
    /\ checked = <<>>
    /\ iv_in = NoInput
    /\ iv_out = NoDecision(0)
    /\ cx_in = NoInput
    /\ cx_gemini = "unavailable"
    /\ cx_out = NoResult
    /\ pt_in = NoInput
    /\ pt_out = EmptyPatternResult
    /\ co_in = NoInput
    /\ co_out = NoInput
    /\ co_calls = <<>>
    /\ sd_in = NoDomain
    /\ sd_out = 0
    /\ memo = <<>>
    /\ reqs = <<>>

\* start_session, lines 18-23: the query for the active sessions
StartSessionQueries(r) ==
    LET started == Len(sessions)
                   + Cardinality({q \in Requests : session_reqs[q].pc = "queried"})
    IN  /\ session_reqs[r].pc = "idle"
        /\ started < MaxSessions
        /\ session_reqs' =
              [session_reqs EXCEPT ![r] =
                 [pc |-> "queried",
                  active |-> {i \in 1..Len(sessions) : sessions[i].is_active}]]
        /\ UNCHANGED <<op, sessions, interventions, checks, checked,
                       iv_in, iv_out, cx_in, cx_gemini, cx_out, pt_in, pt_out,
                       co_in, co_out, co_calls, memo, reqs, sd_in, sd_out>>

\* start_session, lines 24-35: the sessions found are ended, the new one is
\* added (is_active defaults to True, ended_at to None), all in one commit
StartSessionCommits(r) ==
    LET q == session_reqs[r]
        ended == [i \in 1..Len(sessions) |->
                    IF i \in q.active
                    THEN [is_active |-> FALSE, ended_at |-> "utcnow"]
                    ELSE sessions[i]]
    IN  /\ q.pc = "queried"
        /\ sessions' = Append(ended, [is_active |-> TRUE, ended_at |-> "None"])
        /\ session_reqs' = [session_reqs EXCEPT ![r] = [pc |-> "idle", active |-> {}]]
        /\ UNCHANGED <<op, interventions, checks, checked,
                       iv_in, iv_out, cx_in, cx_gemini, cx_out, pt_in, pt_out,
                       co_in, co_out, co_calls, memo, reqs, sd_in, sd_out>>

\* end_session: the session of the request is ended and committed; an id
\* with no row is answered 404.  Rows are never deleted, so the row found
\* at line 41 is there at the commit.
EndSession(r) ==
    /\ session_reqs[r].pc = "idle"
    /\ \E session_id \in 1..MaxSessions :
         sessions' = IF session_id \in 1..Len(sessions)
                     THEN [sessions EXCEPT ![session_id] =
                             [is_active |-> FALSE, ended_at |-> "utcnow"]]
                     ELSE sessions
    /\ UNCHANGED <<op, session_reqs, interventions, checks, checked,
                   iv_in, iv_out, cx_in, cx_gemini, cx_out, pt_in, pt_out,
                   co_in, co_out, co_calls, memo, reqs, sd_in, sd_out>>

NextSessions ==
    \E r \in Requests :
        \/ StartSessionQueries(r)
        \/ StartSessionCommits(r)
        \/ EndSession(r)

SpecSessions == InitSessions /\ [][NextSessions]_vars

(***************************************************************************)
(* Claims about InterventionAgent.analyze (checked under SpecIntervention) *)
(***************************************************************************)
IvReturned == op = "intervention:returned"

\* What the claims call the classification and confidence of the context
\* result: the field, or neutral / 0 when the field is missing
IvClassification ==
    IF "classification" \in DOMAIN iv_in.context_result
    THEN iv_in.context_result.classification ELSE "neutral"

IvConfidence ==
    IF "confidence" \in DOMAIN iv_in.context_result
    THEN iv_in.context_result.confidence ELSE 0

IvGateOpen == IvClassification = "distraction" /\ IvConfidence >= 300

\* risk = domain_risk_scores[current_domain], or 0.5 when absent
IvRisk ==
    IF "domain_risk_scores" \in DOMAIN iv_in.pattern_result
       /\ iv_in.current_domain \in DictKeys(iv_in.pattern_result.domain_risk_scores)
    THEN DictGet(iv_in.pattern_result.domain_risk_scores, iv_in.current_domain, 500)
    ELSE 500

(***************************************************************************)
(* The adjusted threshold as C2 states it: base * max(0.5, 1 - risk * 0.5) *)
(* and again * 0.7 when a session is active, each product truncated to     *)
(* whole seconds (the reading most favourable to the code, which applies   *)
(* int() after each product).                                              *)
(***************************************************************************)
StatedThreshold(base, risk, session_active) ==
    LET byRisk == (base * Max(1000, 2000 - risk)) \div 2000
    IN  IF session_active THEN (byRisk * 7) \div 10 ELSE byRisk

\* The highest level whose stated threshold the dwell time has reached
StatedLevel(dwell, risk, session_active) ==
    IF dwell >= StatedThreshold(600, risk, session_active) THEN "hard_block"
    ELSE IF dwell >= StatedThreshold(300, risk, session_active) THEN "soft_block"
    ELSE IF dwell >= StatedThreshold(120, risk, session_active) THEN "warn"
    ELSE IF dwell >= StatedThreshold(30, risk, session_active) THEN "nudge"
    ELSE "none"

\* C2: past the gate, the returned level is the highest level whose adjusted
\* threshold (base * multiplier, * 0.7 in a session) the dwell time has
\* reached, and none below the adjusted nudge threshold.
C2_LevelIsHighestReachedThreshold ==
    (IvReturned /\ IvGateOpen) =>
        iv_out.level =
            StatedLevel(iv_in.time_on_current_seconds, IvRisk, iv_in.session_active)

\* C2, the two examples of the claim: risk 0.9, session inactive, gives nudge
\* at dwell 35 and warn at dwell 130 (these hold)
C2_Examples ==
    (IvReturned /\ IvGateOpen /\ IvRisk = 900 /\ ~iv_in.session_active) =>
        /\ iv_in.time_on_current_seconds = 35 => iv_out.level = "nudge"
        /\ iv_in.time_on_current_seconds = 130 => iv_out.level = "warn"

\* C3: when the gate is closed (classification, defaulting to neutral, is not
\* distraction, or confidence, defaulting to 0, is below 0.3) the decision is
\* level none, should_intervene false, cooldown 30, whatever the other inputs.
C3_GateClosedNoIntervention ==
    (IvReturned /\ ~IvGateOpen) =>
        /\ iv_out.level = "none"
        /\ iv_out.should_intervene = FALSE
        /\ iv_out.cooldown_seconds = 30

\* C3 witness: a call with both fields missing, a dwell time past the base
\* hard-block threshold and a session active has returned
C3_Witness ==
    /\ IvReturned
    /\ iv_in.context_result = <<>>
    /\ iv_in.time_on_current_seconds >= 600
    /\ iv_in.session_active
    /\ iv_in.interventions_today > 0
    /\ iv_out.level = "none"

\* C3 witness of the confidence side: a distraction below the gate
C3_WitnessLowConfidence ==
    /\ IvReturned
    /\ IvClassification = "distraction"
    /\ IvConfidence = 299
    /\ iv_in.time_on_current_seconds >= 600

\* C4: should_intervene is false exactly when level is none; urgency and
\* cooldown are the fixed per-level values; for level none the cooldown is 30
\* at the gate and max(5, adjusted_nudge - dwell) below the nudge threshold;
\* cooldown_seconds is never negative.
C4_DecisionShape ==
    IvReturned =>
        /\ (iv_out.should_intervene = FALSE) <=> (iv_out.level = "none")
        /\ iv_out.level = "nudge" =>
              iv_out.urgency = 3 /\ iv_out.cooldown_seconds = 60
        /\ iv_out.level = "warn" =>
              iv_out.urgency = 6 /\ iv_out.cooldown_seconds = 30
        /\ iv_out.level = "soft_block" =>
              iv_out.urgency = 8 /\ iv_out.cooldown_seconds = 15
        /\ iv_out.level = "hard_block" =>
              iv_out.urgency = 10 /\ iv_out.cooldown_seconds = 0
        /\ (iv_out.level = "none" /\ ~IvGateOpen) => iv_out.cooldown_seconds = 30
        /\ (iv_out.level = "none" /\ IvGateOpen) =>
              iv_out.cooldown_seconds =
                  Max(5, AdjustedThreshold(30, IvRisk, iv_in.session_active)
                         - iv_in.time_on_current_seconds)
        /\ iv_out.level \in {"none", "nudge", "warn", "soft_block", "hard_block"}
        /\ iv_out.cooldown_seconds >= 0

\* C4 witness: a call past the gate returned none with the floor of 5 seconds
\* in force (the nudge threshold is less than 5 seconds away)
C4_Witness ==
    /\ IvReturned
    /\ IvGateOpen
    /\ iv_out.level = "none"
    /\ iv_out.cooldown_seconds = 5
    /\ AdjustedThreshold(30, IvRisk, iv_in.session_active)
           - iv_in.time_on_current_seconds < 5

\* The size of the message pool of a level
IvPoolSize(level) ==
    CASE level = "nudge" -> NudgePoolSize
      [] level = "warn" -> WarnPoolSize
      [] level = "soft_block" -> SoftBlockPoolSize
      [] level = "hard_block" -> HardBlockPoolSize

\* n mod size, as the remainder of the division n = q * size + k
IvRemainder(n, size) ==
    CHOOSE k \in 0..(size - 1) : \E q \in 0..n : n = q * size + k

\* The decision for the same call with interventions_today raised by k
IvLater(k) ==
    InterventionAnalyze(
        [iv_in EXCEPT !.interventions_today = iv_in.interventions_today + k])

\* C16: for an active level the message is the one at index
\* (interventions_today mod pool size) of the level's pool; with the other
\* inputs fixed, one more intervention gives the same level and the next
\* index of the pool (index 0 after the last), and pool-size more
\* interventions give the same message again.
C16_MessageRoundRobin ==
    (IvReturned /\ iv_out.level # "none") =>
        LET size == IvPoolSize(iv_out.level)
            index == iv_out.message[2]
        IN  /\ iv_out.message[1] = iv_out.level
            /\ index = IvRemainder(iv_in.interventions_today, size)
            /\ IvLater(1).level = iv_out.level
            /\ IvLater(1).message[2] =
                   (IF index = size - 1 THEN 0 ELSE index + 1)
            /\ IvLater(size).message = iv_out.message

\* C16 happens: the fourth nudge of the day (interventions_today = 3) has
\* walked the three nudge messages and is at index 0 again
C16_Witness ==
    /\ IvReturned
    /\ iv_out.level = "nudge"
    /\ iv_in.interventions_today = NudgePoolSize
    /\ iv_out.message[2] = 0
    /\ IvLater(1).message[2] = 1

\* The decision for the same call with the session flag set to active
IvWithSession(active) ==
    InterventionAnalyze([iv_in EXCEPT !.session_active = active])

\* C17: with every other input fixed, the level returned with
\* session_active = true is at least as severe as the level returned with
\* session_active = false; where the inactive call does not intervene at a
\* dwell time that reaches the active call's nudge threshold, the active
\* call intervenes.
C17_SessionIsStricter ==
    IvReturned =>
        /\ iv_out = IvWithSession(iv_in.session_active)
        /\ LevelRank(IvWithSession(TRUE).level)
              >= LevelRank(IvWithSession(FALSE).level)
        /\ (/\ IvGateOpen
            /\ ~IvWithSession(FALSE).should_intervene
            /\ iv_in.time_on_current_seconds
                  >= IntTimes07(AdjustByRisk(NUDGE_THRESHOLD_SECONDS,
                                             RiskMultiplier(IvRisk))))
              => IvWithSession(TRUE).should_intervene

\* C17 happens: an active-session call returned nudge at a dwell time at
\* which the same call without a session does not intervene
C17_Witness ==
    /\ IvReturned
    /\ iv_in.session_active
    /\ iv_out.level = "nudge"
    /\ IvWithSession(FALSE).level = "none"

\* The level of the same call with another dwell time, another risk
IvLevelAt(dwell, risk) ==
    LevelRank(InterventionAnalyze(
        [iv_in EXCEPT !.time_on_current_seconds = dwell,
                      !.pattern_result =
                          [domain_risk_scores |->
                               <<[key |-> YouTube, value |-> risk]>>]]).level)

\* C26: for every domain risk in [0, 1] and either session flag the four
\* adjusted thresholds stay ordered nudge <= warn <= soft_block <= hard_block
\* after truncation, so a longer dwell time never yields a less severe
\* level, and a higher domain risk never yields a less severe level.
C26_EscalationIsMonotone ==
    IvReturned =>
        LET dwell == iv_in.time_on_current_seconds
            adjusted(base) ==
                AdjustedThreshold(base, IvRisk, iv_in.session_active)
            points == {adjusted(b) + d : b \in BaseThresholds, d \in {-1, 0, 1}}
        IN  /\ adjusted(NUDGE_THRESHOLD_SECONDS) <= adjusted(WARN_THRESHOLD_SECONDS)
            /\ adjusted(WARN_THRESHOLD_SECONDS)
                  <= adjusted(SOFT_BLOCK_THRESHOLD_SECONDS)
            /\ adjusted(SOFT_BLOCK_THRESHOLD_SECONDS)
                  <= adjusted(HARD_BLOCK_THRESHOLD_SECONDS)
            /\ iv_out.level = "none" <=> dwell < adjusted(NUDGE_THRESHOLD_SECONDS)
            /\ iv_out.level = "hard_block"
                  <=> dwell >= adjusted(HARD_BLOCK_THRESHOLD_SECONDS)
            /\ \A longer \in {t \in points : t >= dwell} :
                  IvLevelAt(longer, IvRisk) >= LevelRank(iv_out.level)
            /\ \A higher \in {r \in {IvRisk + 1, IvRisk + 10, 1000} :
                                IvRisk <= r /\ r <= 1000} :
                  IvLevelAt(dwell, higher) >= LevelRank(iv_out.level)

\* C26 witness: at risk 0.37 the hard threshold is int(600 * 0.815) = 488 (the
\* double product lies below 489) and a dwell time of 488 seconds is blocked
C26_Witness ==
    /\ IvReturned
    /\ IvRisk = 370
    /\ ~iv_in.session_active
    /\ iv_in.time_on_current_seconds = 488
    /\ iv_out.level = "hard_block"

(***************************************************************************)
(* Claims about ContextAgent.analyze (checked under SpecContext)           *)
(***************************************************************************)
CxReturned == op = "context:returned"

CxTitle == cx_in.current_title

\* The domain resolves to the severe/adult set, exactly or as a subdomain
CxSevereDomain ==
    CxDomain(cx_in) # NoDomain
    /\ (CxDomain(cx_in) \in ADULT_DOMAINS
        \/ IsSubdomainOf(CxDomain(cx_in), ADULT_DOMAINS))

\* The title matches a severe/adult keyword
CxSevereTitle == ~TitleIsEmpty(CxTitle) /\ CxTitle.adult

\* The domain resolves to the mixed set by the priority of the catalog
CxMixedDomain ==
    LET d == CxDomain(cx_in)
    IN  /\ d # NoDomain
        /\ d \notin (ADULT_DOMAINS \cup STUDY_DOMAINS)
        /\ \/ d \in MIXED_DOMAINS
           \/ /\ d \notin DISTRACTION_DOMAINS
              /\ ~IsSubdomainOf(d, ADULT_DOMAINS)
              /\ ~IsSubdomainOf(d, STUDY_DOMAINS)
              /\ IsSubdomainOf(d, MIXED_DOMAINS)

\* The classifier was configured and the title was sent to it
CxClassifierCalled ==
    /\ AsksGemini(CxDomain(cx_in), cx_gemini)
    /\ CxTitle.length = "long"

\* C1: a severe domain (exact or subdomain) or a title matching a severe
\* keyword gives classification distraction, confidence 1.0 and context_score
\* -1.0, for every other input and every answer of the semantic classifier.
C1_SevereForcesDistraction ==
    (CxReturned /\ (CxSevereDomain \/ CxSevereTitle)) =>
        /\ cx_out.classification = "distraction"
        /\ cx_out.confidence = 1000
        /\ cx_out.context_score = -1000

\* C1, the part that holds: the severe result is forced whenever the title
\* is scored by the keyword patterns (the classifier is not configured, is
\* not called, or answers neutral or fails) or the domain is severe.
C1_SevereWhenRegexScoresTitle ==
    (CxReturned
     /\ (CxSevereDomain
         \/ (CxSevereTitle
             /\ (~CxClassifierCalled \/ cx_gemini \in {"neutral", "error"})))) =>
        /\ cx_out.classification = "distraction"
        /\ cx_out.confidence = 1000
        /\ cx_out.context_score = -1000
        /\ cx_out.is_adult

\* C6: every returned result has context_score in [-1, 1], confidence in
\* [0, 1] and topic_relevance in [0, 1] (values in thousandths).
C6_ResultRanges ==
    CxReturned =>
        /\ cx_out.context_score \in -1000..1000
        /\ cx_out.confidence \in 0..1000
        /\ cx_out.topic_relevance \in 0..1000

\* C6 witness: a result without a severe signal whose confidence was capped
\* at 1.0 (1.5 times the score exceeds 1) and whose topic relevance is 1.0
C6_Witness ==
    /\ CxReturned
    /\ ~cx_out.is_adult
    /\ 3 * Abs(cx_out.context_score) > 2000
    /\ cx_out.confidence = 1000
    /\ cx_out.topic_relevance = 1000

\* The mean of the collected signals of the call, clamped to [-1, 1]:
\* context_score before it is rounded, as <<numerator, denominator>>
CxMean ==
    LET scores == Signals(cx_in, cx_gemini)
    IN  ClampedMean(SumSeq(scores), Len(scores))

\* C7: without a severe signal the classification is study exactly when
\* context_score > 0.2, distraction exactly when context_score < -0.2 and
\* neutral otherwise, and confidence is min(1, |context_score| * 1.5)
\* (context_score is the clamped mean of the signals; the returned
\* context_score and confidence are its values rounded to three decimals).
C7_ClassificationFollowsScore ==
    (CxReturned /\ ~cx_out.is_adult) =>
        /\ cx_out.classification = "study" <=> 5 * CxMean[1] > CxMean[2]
        /\ cx_out.classification = "distraction" <=> 5 * CxMean[1] < -CxMean[2]
        /\ cx_out.classification \in {"study", "distraction", "neutral"}
        /\ cx_out.context_score \in Round3(1000 * CxMean[1], CxMean[2])
        /\ cx_out.confidence \in
              Round3(Min(1500 * Abs(CxMean[1]), 1000 * CxMean[2]), CxMean[2])

\* C7, the part that holds: off the two boundaries (the mean of the signals
\* is neither 0.2 nor -0.2) the classification and the confidence are as
\* stated.
C7_OffBoundary ==
    (CxReturned /\ ~cx_out.is_adult /\ 5 * Abs(CxMean[1]) # CxMean[2]) =>
        /\ cx_out.classification = "study" <=> 5 * CxMean[1] > CxMean[2]
        /\ cx_out.classification = "distraction" <=> 5 * CxMean[1] < -CxMean[2]
        /\ cx_out.confidence \in
              Round3(Min(1500 * Abs(CxMean[1]), 1000 * CxMean[2]), CxMean[2])

\* C8: on a mixed domain, a title whose study-keyword hits outnumber its
\* distraction-keyword hits, with title_score > 0, is classified study for
\* every study topic, session flag and recent-domain list.
C8_MixedDomainStudyTitle ==
    (CxReturned
     /\ CxMixedDomain
     /\ CxTitle.study_hits > CxTitle.distraction_hits
     /\ TitleScore(CxDomain(cx_in), CxTitle, cx_gemini) > 0) =>
        cx_out.classification = "study"

\* C8 witness: youtube.com, a title with one study keyword and no other,
\* a study session active, no study topic, and the recent domains all
\* distractions, was classified study
C8_Witness ==
    /\ CxReturned
    /\ CxDomain(cx_in) = YouTube
    /\ CxTitle.study_hits = 1
    /\ CxTitle.distraction_hits = 0
    /\ ~CxTitle.adult
    /\ cx_gemini = "unavailable"
    /\ ~cx_in.study_topic.present
    /\ cx_in.session_active
    /\ cx_in.recent_domains = <<Facebook, Facebook>>
    /\ cx_out.classification = "study"

\* C9: on a mixed domain, a generic title that matches no study, distraction
\* or severe keyword, with no study topic, no active session and no recent
\* domains, is classified distraction.
C9_MixedDomainGenericTitle ==
    (CxReturned
     /\ CxMixedDomain
     /\ ~TitleIsEmpty(CxTitle)
     /\ CxTitle.study_hits = 0
     /\ CxTitle.distraction_hits = 0
     /\ ~CxTitle.adult
     /\ ~cx_in.study_topic.present
     /\ ~cx_in.session_active
     /\ cx_in.recent_domains = <<>>) =>
        cx_out.classification = "distraction"

\* C9, what the program returns instead when the title is scored by the
\* keyword patterns: neutral, with context_score 0
C9_GenericTitleIsNeutral ==
    (CxReturned
     /\ CxMixedDomain
     /\ ~TitleIsEmpty(CxTitle)
     /\ CxTitle.study_hits = 0
     /\ CxTitle.distraction_hits = 0
     /\ ~CxTitle.adult
     /\ ~cx_in.study_topic.present
     /\ ~cx_in.session_active
     /\ cx_in.recent_domains = <<>>
     /\ (~CxClassifierCalled \/ cx_gemini \in {"neutral", "error"})) =>
        /\ cx_out.classification = "neutral"
        /\ cx_out.context_score = 0

\* The scoring of C22's trajectory, from the words of the claim: +1 for a
\* study domain, -1 for a distraction domain, 0 otherwise, over the last
\* five recent domains only, each weighted by its position (index + 1);
\* <<weighted sum, sum of the weights>>
CxTrajectory ==
    LET recent == cx_in.recent_domains
        first == Max(1, Len(recent) - 4)
        kind(d) == IF d \in STUDY_DOMAINS THEN 1
                   ELSE IF d \in DISTRACTION_DOMAINS THEN -1 ELSE 0
        kept == Len(recent) - first + 1
        terms == [j \in 1..kept |-> kind(recent[first + j - 1]) * j]
        weights == [j \in 1..kept |-> j]
    IN  IF recent = <<>> THEN <<0, 1>>
        ELSE <<SumSeq(terms), SumSeq(weights)>>

\* The signals C22 lists besides the trajectory, in sixtieths
CxListedSignals ==
    LET domain_score == ScoreDomain(CxDomain(cx_in))
        title_score == TitleScore(CxDomain(cx_in), cx_in.current_title,
                                  cx_gemini)
        bonus == IF domain_score <= 0 /\ title_score > 0
                 THEN <<Unit + title_score>>
                 ELSE IF domain_score >= 0 /\ title_score < 0
                 THEN <<title_score - 48>>
                 ELSE <<>>
        boost == IF cx_out.topic_relevance > 300
                 THEN <<IF domain_score < 0 THEN 48 ELSE 30>>
                 ELSE <<>>
        penalty == IF cx_in.session_active /\ domain_score < 0
                      /\ title_score <= 0
                   THEN <<-18>>
                   ELSE <<>>
    IN  <<domain_score, title_score>> \o bonus \o boost \o penalty

\* C22: without a severe signal context_score is round(mean, 3) of the mean,
\* clamped to [-1, 1], of exactly: domain_score, title_score, the override
\* bonus 1.0 + title_score or the override penalty -0.8 + title_score (never
\* both), the topic boost 0.8 or 0.5 when relevance > 0.3, -0.3 for an active
\* session on a negative domain with a non-positive title, and
\* trajectory * 0.5 when |trajectory| > 0.1, the trajectory being the
\* position-weighted average over the last five recent domains only.
C22_ContextScoreIsMeanOfSignals ==
    (CxReturned /\ ~cx_out.is_adult) =>
        LET t == CxTrajectory
            counted == 10 * Abs(t[1]) > t[2]
            n == Len(CxListedSignals) + (IF counted THEN 1 ELSE 0)
            \* the sum of the signals times 60 * t[2]
            sum == SumSeq(CxListedSignals) * t[2]
                   + (IF counted THEN 30 * t[1] ELSE 0)
            den == 60 * t[2] * n
            clamped == Max(-den, Min(den, sum))
        IN  2 * Abs(cx_out.context_score * den - 1000 * clamped) <= den

\* C22 witness: a page with no domain or title signal whose six recent
\* domains start with a distraction and end with a study domain: the
\* trajectory of the last five is 5/15, its signal 1/6, the mean 0.056
C22_Witness ==
    /\ CxReturned
    /\ ~cx_out.is_adult
    /\ Len(cx_in.recent_domains) > 5
    /\ cx_in.recent_domains[1] = Facebook
    /\ CxListedSignals = <<0, 0>>
    /\ cx_out.context_score = 56

\* The title score of the call, in sixtieths
CxTitleScore == TitleScore(CxDomain(cx_in), cx_in.current_title, cx_gemini)

\* C23: on a domain of the distraction catalog (domain_score -0.8 or -0.6)
\* every title with title_score > 0 is classified study when there is no
\* study topic, no active session and no recent domain.
C23_StudyTitleOverridesDistractionDomain ==
    (CxReturned
     /\ ScoreDomain(CxDomain(cx_in)) \in {-48, -36}
     /\ CxTitleScore > 0
     /\ ~cx_in.study_topic.present
     /\ ~cx_in.session_active
     /\ cx_in.recent_domains = <<>>) =>
        cx_out.classification = "study"

\* C23, what the program returns in the case that fails: an exact catalog
\* domain (-0.8) with a title score of 0.2 gives the signals -0.8, 0.2, 1.2,
\* whose mean 0.2 is not above 0.2: neutral
C23_OneKeywordOnExactDomainIsNeutral ==
    (CxReturned
     /\ ScoreDomain(CxDomain(cx_in)) = -48
     /\ CxTitleScore = 12
     /\ ~cx_in.study_topic.present
     /\ ~cx_in.session_active
     /\ cx_in.recent_domains = <<>>) =>
        /\ cx_out.classification = "neutral"
        /\ cx_out.context_score = 200

\* C24: the reason "Page title contains study-related keywords" is returned
\* only if title_score > 0 and the reason "Page title contains
\* distraction-related keywords" only if title_score < 0, also when no
\* reason precedes them (domain_score = 0).
C24_TitleReasonsAgreeWithScore ==
    CxReturned =>
        LET reasons == {cx_out.reasons[i] : i \in 1..Len(cx_out.reasons)}
        IN  /\ "title_study" \in reasons => CxTitleScore > 0
            /\ "title_distraction" \in reasons => CxTitleScore < 0

\* C24, what the program returns when no reason precedes the title's
\* (domain_score = 0 and no label of the classifier): the study-keyword
\* reason, whatever the title score
C24_FirstReasonIsAlwaysStudyKeywords ==
    (CxReturned
     /\ ScoreDomain(CxDomain(cx_in)) = 0
     /\ (~CxClassifierCalled \/ cx_gemini \in {"neutral", "error"})) =>
        /\ cx_out.reasons # <<>>
        /\ cx_out.reasons[1] = "title_study"

(***************************************************************************)
(* Claims about PatternAgent.analyze (checked under SpecPattern)           *)
(***************************************************************************)
PtReturned == op = "pattern:returned"

PtEvents == PatternEvents(pt_in)

\* The domains of the history
PtDomains == {EventDomain(PtEvents[i]) : i \in 1..Len(PtEvents)} \ {NoDomain}

PtEventsOf(d) == {i \in 1..Len(PtEvents) : EventDomain(PtEvents[i]) = d}

\* The sum of the durations (a negative duration counts 0) of the events
\* of an index set
RECURSIVE PtDuration(_)
PtDuration(indices) ==
    IF indices = {} THEN 0
    ELSE LET i == CHOOSE x \in indices : TRUE
         IN  Max(0, PtEvents[i].duration_seconds) + PtDuration(indices \ {i})

PtTotal(d) == PtDuration(PtEventsOf(d))

\* The duration of d's events flagged is_distraction
PtFlagged(d) ==
    PtDuration({i \in PtEventsOf(d) : PtEvents[i].is_distraction})

\* The duration of d's events that are flagged or whose domain is in the
\* agent's list of distraction domains
PtDistraction(d) ==
    PtDuration({i \in PtEventsOf(d) :
                  PtEvents[i].is_distraction \/ d \in PATTERN_DISTRACTION_DOMAINS})

PtRisks == pt_out.domain_risk_scores

PtRisksOrdered ==
    /\ \A i \in 1..Len(PtRisks) : PtRisks[i].value \in 0..1000
    /\ \A i, j \in 1..Len(PtRisks) : i < j => PtRisks[i].value >= PtRisks[j].value

\* C10: for every domain d of the history, domain_risk_scores[d] is the
\* duration of d's events flagged is_distraction over the duration of all of
\* d's events (to three decimals, for a domain with a positive duration), in
\* [0, 1], the map ordered by descending risk; so a domain all of whose
\* events carry is_distraction=false has risk 0.
C10_RiskIsFlaggedShare ==
    PtReturned =>
        /\ \A d \in PtDomains :
              PtTotal(d) > 0 =>
                  /\ d \in DictKeys(PtRisks)
                  /\ DictGet(PtRisks, d, -1) \in
                        Round3(1000 * PtFlagged(d), PtTotal(d))
        /\ \A d \in DictKeys(PtRisks) :
              PtFlagged(d) = 0 => DictGet(PtRisks, d, -1) = 0
        /\ PtRisksOrdered

\* C10 amended: domain_risk_scores has one entry for every domain of the
\* history whose events have a positive total duration and no other entry;
\* the entry is the duration of the events that are flagged is_distraction
\* or whose domain is in the agent's distraction list over the total
\* duration, rounded to three decimals, in [0, 1]; the map is ordered by
\* descending risk; a domain outside the list all of whose events carry
\* is_distraction=false has risk 0.
C10_RiskIsDistractionShare ==
    PtReturned =>
        /\ DictKeys(PtRisks) = {d \in PtDomains : PtTotal(d) > 0}
        /\ Cardinality(DictKeys(PtRisks)) = Len(PtRisks)
        /\ \A d \in DictKeys(PtRisks) :
              /\ DictGet(PtRisks, d, -1) \in
                    Round3(1000 * PtDistraction(d), PtTotal(d))
              /\ (d \notin PATTERN_DISTRACTION_DOMAINS /\ PtFlagged(d) = 0) =>
                    DictGet(PtRisks, d, -1) = 0
        /\ PtRisksOrdered

\* C10 witness: a history with unflagged youtube.com events only (risk 1.0),
\* github.com events of both kinds (risk 0.667) and a weather.com event of
\* duration 0 (no entry) has been analysed
C10_Witness ==
    /\ PtReturned
    /\ PtFlagged(YouTube) = 0
    /\ DictGet(PtRisks, YouTube, -1) = 1000
    /\ DictGet(PtRisks, GitHub, -1) = 667
    /\ Weather \in PtDomains
    /\ Weather \notin DictKeys(PtRisks)
    /\ Keys(PtRisks) = <<YouTube, GitHub>>

\* C18: analyze on an empty or missing event history returns patterns = [],
\* hourly_vulnerability = {}, domain_risk_scores = {} and
\* distraction_chains = [].
C18_EmptyHistoryEmptyResult ==
    (PtReturned /\ ("events" \notin DOMAIN pt_in \/ pt_in.events = <<>>)) =>
        /\ DOMAIN pt_out = {"patterns", "hourly_vulnerability",
                            "domain_risk_scores", "distraction_chains"}
        /\ pt_out.patterns = <<>>
        /\ pt_out.hourly_vulnerability = <<>>
        /\ pt_out.domain_risk_scores = <<>>
        /\ pt_out.distraction_chains = <<>>

\* C18 happens: a call without the key "events" has returned
C18_Witness ==
    /\ PtReturned
    /\ "events" \notin DOMAIN pt_in
    /\ pt_out.patterns = <<>>

\* The domains whose entry of domain_risk_scores is above 0.6
PtHighRisk == {e \in {PtRisks[i] : i \in 1..Len(PtRisks)} : e.value > 600}

RECURSIVE PtSumOfValues(_)
PtSumOfValues(entries) ==
    IF entries = {} THEN 0
    ELSE LET e == CHOOSE x \in entries : TRUE
         IN  e.value + PtSumOfValues(entries \ {e})

PtPatterns(type) ==
    {pt_out.patterns[i] :
       i \in {j \in 1..Len(pt_out.patterns) : pt_out.patterns[j].type = type}}

\* C19: a "high_risk_domains" pattern is emitted exactly when some domain has
\* a risk above 0.6; it lists only domains with a risk above 0.6 (with their
\* risks) and its confidence is the mean risk of all those domains, to
\* three decimals, a value in (0.6, 1]; a domain with 0.9 of its duration
\* spent in distraction events has a risk above 0.6 and triggers the
\* pattern.
C19_HighRiskDomainsPattern ==
    PtReturned =>
        LET found == PtPatterns("high_risk_domains")
            n == Cardinality(PtHighRisk)
        IN  /\ (found # {}) <=> (PtHighRisk # {})
            /\ Cardinality(found) <= 1
            /\ \A p \in found :
                 /\ p.data # <<>>
                 /\ \A i \in 1..Len(p.data) : p.data[i] \in PtHighRisk
                 /\ \A i \in 1..Len(p.description) :
                      \E e \in PtHighRisk : e.key = p.description[i]
                 /\ p.confidence > 600 /\ p.confidence <= 1000
                 /\ 2 * Abs(p.confidence * n - PtSumOfValues(PtHighRisk)) <= n
            /\ \A d \in PtDomains :
                 (PtTotal(d) > 0 /\ 10 * PtDistraction(d) = 9 * PtTotal(d)) =>
                     /\ DictGet(PtRisks, d, 0) > 600
                     /\ found # {}

\* C19 happens: weather.com has 90 of its 100 seconds in flagged events, its
\* risk is 0.9 and the pattern is emitted with confidence 0.9
C19_Witness ==
    /\ PtReturned
    /\ PtTotal(Weather) = 100
    /\ PtDistraction(Weather) = 90
    /\ DictGet(PtRisks, Weather, 0) = 900
    /\ \E p \in PtPatterns("high_risk_domains") : p.confidence = 900

\* The domains of the distraction events (flagged, or of a domain of the
\* agent's distraction list) that have a domain, in input order
PtSequence ==
    LET kept == SelectSeq(PtEvents,
                  LAMBDA ev : /\ EventDomain(ev) # NoDomain
                              /\ (ev.is_distraction
                                    \/ EventDomain(ev) \in PATTERN_DISTRACTION_DOMAINS))
    IN  [i \in 1..Len(kept) |-> EventDomain(kept[i])]

\* How often the list w occurs in PtSequence as consecutive entries
PtCount(w) ==
    Cardinality({i \in 1..(Len(PtSequence) - Len(w) + 1) :
                   SubSeq(PtSequence, i, i + Len(w) - 1) = w})

\* The lists of k consecutive domains, not all the same, that occur at
\* least least times
PtQualifying(k, least) ==
    {w \in {SubSeq(PtSequence, i, i + k - 1) :
              i \in 1..(Len(PtSequence) - k + 1)} :
        /\ \E i \in 1..k : w[i] # w[1]
        /\ PtCount(w) >= least}

\* list holds min(5, |candidates|) different candidates, most frequent
\* first, and no candidate left out is more frequent than one listed
PtMostFrequentOf(list, candidates) ==
    /\ Len(list) = Min(5, Cardinality(candidates))
    /\ \A i \in 1..Len(list) : list[i] \in candidates
    /\ \A i, j \in 1..Len(list) :
         i < j => (list[i] # list[j] /\ PtCount(list[i]) >= PtCount(list[j]))
    /\ \A w \in candidates :
         (\A i \in 1..Len(list) : list[i] # w)
             => \A i \in 1..Len(list) : PtCount(list[i]) >= PtCount(w)

PtChains == pt_out.distraction_chains

\* C20: the chain list is the trigrams of the distraction sequence that
\* occur at least twice (at most 5, most frequent first, none made of one
\* repeated domain), followed by the pairs that occur at least 3 times (at
\* most 5, most frequent first, no self-loop); when a trigram qualifies the
\* first chain is a most frequent trigram; youtube, reddit, instagram three
\* times over gives [youtube, reddit, instagram] as the first chain.
C20_ChainsAreFrequentTrigramsThenPairs ==
    PtReturned =>
        LET trigrams == PtQualifying(3, 2)
            pairs == PtQualifying(2, 3)
            nt == Min(5, Cardinality(trigrams))
            np == Min(5, Cardinality(pairs))
        IN  /\ Len(PtChains) = nt + np
            /\ PtMostFrequentOf(SubSeq(PtChains, 1, nt), trigrams)
            /\ PtMostFrequentOf(SubSeq(PtChains, nt + 1, nt + np), pairs)
            /\ trigrams # {} =>
                 /\ Len(PtChains[1]) = 3
                 /\ \A w \in trigrams : PtCount(PtChains[1]) >= PtCount(w)
            /\ PtSequence = <<YouTube, Reddit, Instagram, YouTube, Reddit,
                              Instagram, YouTube, Reddit, Instagram>>
                 => PtChains[1] = <<YouTube, Reddit, Instagram>>

\* C20 happens: youtube, reddit, instagram three times over was analysed,
\* and the first of its five chains is [youtube, reddit, instagram]
C20_Witness ==
    /\ PtReturned
    /\ PtSequence = <<YouTube, Reddit, Instagram, YouTube, Reddit,
                      Instagram, YouTube, Reddit, Instagram>>
    /\ PtCount(<<YouTube, Reddit, Instagram>>) = 3
    /\ Len(PtChains) = 5
    /\ PtChains[1] = <<YouTube, Reddit, Instagram>>

\* C21: on a non-empty history, for each hour 0..23 the ratio is the
\* duration of the hour's distraction events over the duration of all the
\* hour's events (to three decimals), 0 when the hour has no duration, in
\* [0, 1]; events without a usable timestamp count in no hour; a
\* "time_vulnerability" pattern is emitted exactly when some hour's ratio
\* exceeds 0.5, with the mean ratio of those hours (to three decimals) as
\* its confidence.
C21_HourlyVulnerability ==
    (PtReturned /\ PtEvents # <<>>) =>
        LET hourly == pt_out.hourly_vulnerability
            in_hour(h) == {i \in 1..Len(PtEvents) : PtEvents[i].hour = h}
            total(h) == PtDuration(in_hour(h))
            distraction(h) ==
                PtDuration({i \in in_hour(h) :
                    \/ PtEvents[i].is_distraction
                    \/ EventDomain(PtEvents[i]) \in PATTERN_DISTRACTION_DOMAINS})
            flagged == {h \in 0..23 : hourly[h] > 500}
            found == PtPatterns("time_vulnerability")
        IN  /\ DOMAIN hourly = 0..23
            /\ \A h \in 0..23 :
                 /\ hourly[h] \in 0..1000
                 /\ total(h) = 0 => hourly[h] = 0
                 /\ total(h) > 0 =>
                      2 * Abs(hourly[h] * total(h) - 1000 * distraction(h))
                          <= total(h)
            /\ (found # {}) <=> (flagged # {})
            /\ Cardinality(found) <= 1
            /\ \A p \in found :
                 /\ {p.data[i] : i \in 1..Len(p.data)} = flagged
                 /\ 2 * Abs(p.confidence * Cardinality(flagged)
                              - PtSumOfValues({[key |-> h, value |-> hourly[h]] :
                                                 h \in flagged}))
                      <= Cardinality(flagged)

\* C21 happens: a history with a distraction event that has no timestamp
\* and with flagged and unflagged events at 9 o'clock; the ratio of hour 9
\* is 0.667 and the pattern is emitted for hour 9 alone
C21_Witness ==
    /\ PtReturned
    /\ \E i \in 1..Len(PtEvents) :
         /\ PtEvents[i].hour = NoHour
         /\ EventDomain(PtEvents[i]) \in PATTERN_DISTRACTION_DOMAINS
         /\ PtEvents[i].duration_seconds > 0
    /\ pt_out.hourly_vulnerability[9] = 667
    /\ \E p \in PtPatterns("time_vulnerability") :
         p.data = <<9>> /\ p.confidence = 667

(***************************************************************************)
(* Claims about CoordinatorAgent.analyze (checked under SpecCoordinator)   *)
(***************************************************************************)
CoReturned == op = "coordinator:returned"

\* A request field, or the default the coordinator passes when it is absent
CoField(key, default) == IF key \in DOMAIN co_in THEN co_in[key] ELSE default

\* C5: the coordinator calls PatternAnalyzer, then ContextScorer, then
\* InterventionPolicy, in that order and once each; PatternAnalyzer gets the
\* history and ContextScorer the current page; the decision it returns is
\* InterventionPolicy applied to the context result and pattern result it
\* returns under 'context' and 'patterns', with the request's dwell time,
\* session flag and interventions_today passed through unchanged.
C5_PipelineOrderAndPassThrough ==
    /\ \E n \in 0..3 :
          co_calls = SubSeq(<<"pattern", "context", "intervention">>, 1, n)
    /\ Len(co_calls) >= 1 =>
          /\ pt_in.events = CoField("historical_events", <<>>)
          /\ pt_out \in PatternAnalyze(pt_in)
    /\ Len(co_calls) >= 2 =>
          /\ cx_in.current_domain = CoField("current_domain", NoDomain)
          /\ cx_in.current_url = CoField("current_url", <<>>)
          /\ cx_in.current_title = CoField("current_title", EmptyTitle)
          /\ cx_out \in ContextAnalyze(cx_in, cx_gemini)
    /\ Len(co_calls) >= 3 =>
          /\ iv_in.context_result = cx_out
          /\ iv_in.pattern_result = pt_out
          /\ iv_in.time_on_current_seconds = CoField("time_on_current_seconds", 0)
          /\ iv_in.session_active = CoField("session_active", FALSE)
          /\ iv_in.interventions_today = CoField("interventions_today", 0)
          /\ iv_out = InterventionAnalyze(iv_in)
    /\ CoReturned =>
          /\ co_calls = <<"pattern", "context", "intervention">>
          /\ co_out.context = cx_out
          /\ co_out.patterns = pt_out
          /\ co_out.decision =
                InterventionAnalyze(
                    [context_result |-> co_out.context,
                     pattern_result |-> co_out.patterns,
                     time_on_current_seconds |->
                         CoField("time_on_current_seconds", 0),
                     current_domain |-> CoField("current_domain", NoDomain),
                     session_active |-> CoField("session_active", FALSE),
                     interventions_today |-> CoField("interventions_today", 0)])

\* C5 witness: a request with a session active, a history that gives the
\* current domain the risk 1.0, and a dwell time of 10 seconds has returned
\* a nudge: the decision depends on all three (without the session, or with
\* the default risk, 10 seconds are below the nudge threshold)
C5_Witness ==
    /\ CoReturned
    /\ CoField("session_active", FALSE)
    /\ CoField("current_domain", NoDomain) = YouTube
    /\ CoField("time_on_current_seconds", 0) = 10
    /\ CoField("interventions_today", 0) = 1
    /\ DictGet(co_out.patterns.domain_risk_scores, YouTube, -1) = 1000
    /\ co_out.context.classification = "distraction"
    /\ co_out.decision.level = "nudge"

\* The nudge threshold InterventionPolicy adjusts for the request: by the
\* risk of the domain it was given (0.5 when the history has none) and by
\* the session flag
CoAdjustedNudge ==
    AdjustedThreshold(NUDGE_THRESHOLD_SECONDS,
                      DictGet(co_out.patterns.domain_risk_scores,
                              CoField("current_domain", NoDomain), 500),
                      CoField("session_active", FALSE))

\* C25: every context result with classification distraction has confidence
\* >= 0.3, so the decision has should_intervene exactly when the context is
\* classified distraction and the dwell time has reached the adjusted nudge
\* threshold; a page classified study or neutral never triggers an
\* intervention.
C25_GateNeverSuppressesDistraction ==
    /\ (Len(co_calls) >= 2 /\ cx_out.classification = "distraction") =>
          cx_out.confidence >= 300
    /\ CoReturned =>
          /\ co_out.decision.should_intervene <=>
                /\ co_out.context.classification = "distraction"
                /\ CoField("time_on_current_seconds", 0) >= CoAdjustedNudge
          /\ co_out.context.classification \in {"study", "neutral"} =>
                ~co_out.decision.should_intervene

\* C25 witness: a distraction result with confidence exactly 0.3 (the
\* lowest a distraction can have) has led to an intervention
C25_Witness ==
    /\ CoReturned
    /\ co_out.context.classification = "distraction"
    /\ co_out.context.confidence = 300
    /\ co_out.decision.should_intervene
    /\ co_out.decision.level = "warn"

\* C27: the domain risk that adjusts the intervention thresholds is the
\* domain_risk_scores entry of the domain ContextScorer classified, both
\* when current_domain is supplied and when it is absent and ContextScorer
\* derives the domain from current_url.
C27_RiskOfTheClassifiedDomain ==
    CoReturned =>
        DictGet(co_out.patterns.domain_risk_scores, iv_in.current_domain, 500)
            = DictGet(co_out.patterns.domain_risk_scores, CxDomain(cx_in), 500)

\* C27, the half that holds: when the request carries current_domain,
\* InterventionPolicy is given the domain ContextScorer classified
C27_SuppliedDomainIsShared ==
    (CoReturned /\ CoField("current_domain", NoDomain) # NoDomain) =>
        iv_in.current_domain = CxDomain(cx_in)

\* C27, what the program does when the request carries current_url only:
\* InterventionPolicy is given no domain and adjusts by the default risk 0.5
C27_DerivedDomainIsNotPassedOn ==
    (CoReturned /\ CoField("current_domain", NoDomain) = NoDomain) =>
        /\ iv_in.current_domain = NoDomain
        /\ co_out.decision =
              InterventionAnalyze([iv_in EXCEPT !.pattern_result = <<>>])

(***************************************************************************)
(* Claims about the semantic classifier and its memo cache (checked under  *)
(* SpecClassifier and SpecClassifierFair)                                  *)
(***************************************************************************)
KlReturned(r) == reqs[r].pc = "returned"

KlTitle(r) == reqs[r].data.current_title

\* C11: every ContextScorer.analyze call on an ambiguous domain eventually
\* returns a result, also when the collaborator never answers.
C11_AnalyzeEventuallyReturns ==
    \A r \in Requests : (reqs[r].pc = "called") ~> KlReturned(r)

\* C12: on an ambiguous domain with the classifier configured, an answer of
\* distraction gives title_score -0.8 and an answer of study 0.8; any other
\* answer, a failed call and an unconfigured classifier give the regex
\* title score; a label taken from the cache counts as the answer it was
\* made of; analyze returns a result in every case.
C12_AnswerDecidesTitleScore ==
    \A r \in Requests :
        KlReturned(r) =>
            LET q == reqs[r]
                regex == ScoreTitleRegex(KlTitle(r))
            IN  /\ q.result.classification \in Classifications
                /\ ~q.available => q.title_score = regex
                /\ q.answer = "distraction" => q.title_score = -48
                /\ q.answer = "study" => q.title_score = 48
                /\ q.answer \in {"neutral", "error"} => q.title_score = regex
                /\ q.answer = "none" /\ q.label = "distraction"
                       => q.title_score = -48
                /\ q.answer = "none" /\ q.label = "study"
                       => q.title_score = 48
                /\ q.answer = "none" /\ q.label = "neutral"
                       => q.title_score = regex

\* C12 happens: of two requests for a title that the regex scores -0.4, one
\* had a failed call and scores -0.4, the other was answered distraction
C12_Witness ==
    /\ KlReturned("r1") /\ KlReturned("r2")
    /\ reqs["r1"].answer = "error"
    /\ reqs["r1"].title_score = -24
    /\ reqs["r2"].answer = "distraction"
    /\ reqs["r2"].title_score = -48

\* C13: the memo cache never holds more than its capacity, and the label a
\* call gets, from the cache or from the collaborator, was computed for
\* the call's own title, under every interleaving of concurrent calls.
C13_CacheBoundedAndKeyedByTitle ==
    /\ Len(memo) <= CacheCapacity
    /\ \A i \in 1..Len(memo) : memo[i].computed_for = memo[i].key.title
    /\ \A r \in Requests :
         reqs[r].label # "none" => reqs[r].computed_for = KlTitle(r)

\* C13 happens: the cache is full, one request has returned a label it
\* found in the cache, and a concurrent request is about to store a key
\* the cache does not hold, which evicts the oldest entry
C13_Witness ==
    /\ Len(memo) = CacheCapacity
    /\ \E r1, r2 \in Requests :
         /\ KlReturned(r1)
         /\ KlTitle(r1).length = "long"
         /\ reqs[r1].label # "none"
         /\ ~reqs[r1].invoked
         /\ reqs[r2].pc = "computed"
         /\ KlTitle(r2) # KlTitle(r1)
         /\ CacheIndex(memo, CacheKey(reqs[r2].agent, KlTitle(r2))) = 0

\* C14: once a call for title t has completed and while t's entry is in
\* the cache, a later classification of the same exact title t does not
\* invoke the collaborator and returns the cached label.
C14_SameTitleNeverAsksAgain ==
    \A r \in Requests :
        reqs[r].cached_before # {} =>
            /\ ~reqs[r].invoked
            /\ KlReturned(r) => reqs[r].label \in reqs[r].cached_before

\* Request r1's collaborator call failed, r1 has returned, and the entry
\* its call stored is still in the cache
KlFailureCached(r1) ==
    /\ KlReturned(r1)
    /\ reqs[r1].answer = "error"
    /\ LET i == CacheIndex(memo, CacheKey(reqs[r1].agent, KlTitle(r1)))
       IN  i # 0 /\ memo[i].value = "neutral"

\* Request r2 classifies title t with the classifier configured: the step
\* of analyze that enters _ask_gemini_classification
KlClassifies(r2, t) ==
    /\ reqs[r2].pc = "called"
    /\ reqs[r2].available
    /\ KlTitle(r2) = t
    /\ reqs'[r2].pc # "called"

\* The later classification used the regex score and made no call
KlUsesRegexWithoutCall(r2) ==
    /\ reqs'[r2].pc = "returned"
    /\ ~reqs'[r2].invoked
    /\ reqs'[r2].title_score = ScoreTitleRegex(KlTitle(r2))

\* C28: after a collaborator call for title t has failed, the label neutral
\* is stored in the cache, and every later classification of t, until the
\* entry is evicted, uses the regex score without calling the collaborator
\* again, whatever the collaborator would answer now.
C28_FailureIsMemoized ==
    [][\A r1 \in Requests :
         /\ (reqs[r1].pc = "computed" /\ reqs[r1].answer = "error"
             /\ KlReturned(r1)') =>
               /\ \E i \in 1..Len(memo') :
                     /\ memo'[i].key.title = KlTitle(r1)
                     /\ memo'[i].value = "neutral"
               /\ reqs'[r1].title_score = ScoreTitleRegex(KlTitle(r1))
         /\ \A r2 \in Requests \ {r1} :
               (KlFailureCached(r1) /\ KlClassifies(r2, KlTitle(r1))) =>
                   KlUsesRegexWithoutCall(r2)]_vars

\* C28, what holds: the same through one ContextAgent object, the label
\* being stored unless a concurrent call of that object for the same title
\* has stored its own in the meantime (lru_cache keeps the entry it finds)
C28_FailureIsMemoizedPerAgent ==
    [][\A r1 \in Requests :
         /\ (reqs[r1].pc = "computed" /\ reqs[r1].answer = "error"
             /\ CacheIndex(memo, CacheKey(reqs[r1].agent, KlTitle(r1))) = 0
             /\ KlReturned(r1)') =>
               /\ \E i \in 1..Len(memo') :
                     /\ memo'[i].key = CacheKey(reqs[r1].agent, KlTitle(r1))
                     /\ memo'[i].value = "neutral"
               /\ reqs'[r1].title_score = ScoreTitleRegex(KlTitle(r1))
         /\ \A r2 \in Requests \ {r1} :
               (KlFailureCached(r1) /\ KlClassifies(r2, KlTitle(r1))
                /\ reqs[r2].agent = reqs[r1].agent) =>
                   KlUsesRegexWithoutCall(r2)]_vars

\* C28: a failure is cached and the same ContextAgent has classified the
\* title again from the cache
C28_FailureReused ==
    \E r1 \in Requests : \E r2 \in Requests \ {r1} :
        /\ KlFailureCached(r1)
        /\ KlReturned(r2)
        /\ KlTitle(r2) = KlTitle(r1)
        /\ reqs[r2].agent = reqs[r1].agent
        /\ reqs[r2].available
        /\ ~reqs[r2].invoked
        /\ reqs[r2].cached_before = {"neutral"}

(***************************************************************************)
(* Claims about ContextAgent._score_domain (checked under SpecScoreDomain) *)
(***************************************************************************)
SdReturned == op = "score_domain:returned"

\* The hostname is one of the catalog's
SdExact(catalog) == sd_in \in catalog

\* The hostname is some label(s), a dot, and one of the catalog's hostnames
SdSubdomain(catalog) ==
    \E r \in catalog :
        /\ Len(sd_in) > Len(r)
        /\ \A i \in 1..Len(r) : sd_in[Len(sd_in) - Len(r) + i] = r[i]

SdAnyExact ==
    \/ SdExact(ADULT_DOMAINS) \/ SdExact(STUDY_DOMAINS)
    \/ SdExact(MIXED_DOMAINS) \/ SdExact(DISTRACTION_DOMAINS)

\* C15: _score_domain returns a value of {-2.0, -0.8, -0.6, 0.0, 0.6, 0.8}:
\* an exact match in the severe, study, ambiguous, distraction catalog (in
\* that priority) gives -2.0, 0.8, 0.0, -0.8; without an exact match a
\* subdomain match gives -2.0, 0.6, 0.0, -0.6 in the same priority; no
\* hostname or no match gives 0.0.
C15_ScoreDomainTable ==
    SdReturned =>
        /\ sd_out \in {-120, -48, -36, 0, 36, 48}
        /\ sd_out =
            (IF SdExact(ADULT_DOMAINS) THEN -120
             ELSE IF SdExact(STUDY_DOMAINS) THEN 48
             ELSE IF SdExact(MIXED_DOMAINS) THEN 0
             ELSE IF SdExact(DISTRACTION_DOMAINS) THEN -48
             ELSE IF SdSubdomain(ADULT_DOMAINS) THEN -120
             ELSE IF SdSubdomain(STUDY_DOMAINS) THEN 36
             ELSE IF SdSubdomain(MIXED_DOMAINS) THEN 0
             ELSE IF SdSubdomain(DISTRACTION_DOMAINS) THEN -36
             ELSE 0)
        /\ (sd_in = NoDomain \/ (~SdAnyExact /\ ~SdSubdomain(ADULT_DOMAINS)
               /\ ~SdSubdomain(STUDY_DOMAINS) /\ ~SdSubdomain(MIXED_DOMAINS)
               /\ ~SdSubdomain(DISTRACTION_DOMAINS)))
              => sd_out = 0

\* C15 happens: ocw.mit.edu is in the study catalog and is a subdomain of
\* mit.edu; the exact match decides and the score is 0.8, not 0.6
C15_Witness ==
    /\ SdReturned
    /\ sd_in = <<"ocw", "mit", "edu">>
    /\ SdExact(STUDY_DOMAINS) /\ SdSubdomain(STUDY_DOMAINS)
    /\ sd_out = 48

(***************************************************************************)
(* Claims about POST /interventions/check (checked under SpecCheckRoute)   *)
(***************************************************************************)
\* No check is in progress: every request that arrived has been answered
ChecksAnswered == \A r \in Requests : checks[r].pc = "idle"

\* The answered checks of the user of check k that satisfy test
ChecksOfSameUser(k, test(_)) ==
    {j \in 1..Len(checked) : checked[j].user = checked[k].user /\ test(j)}

\* C29: the route records exactly one Intervention row for the requesting
\* user when the decision intervenes and none otherwise, so over the checks
\* of one user the interventions_today passed to the Coordinator is the
\* number of that user's earlier checks that intervened, and two
\* consecutive checks of a user that are both at nudge level get
\* consecutive messages of the nudge pool.
C29_CountsEarlierInterventions ==
    ChecksAnswered =>
        /\ LET intervened == SelectSeq(checked, LAMBDA c : c.should_intervene)
           IN  interventions =
                   [i \in 1..Len(intervened) |->
                      [user_id |-> intervened[i].user,
                       level |-> intervened[i].level]]
        /\ \A k \in 1..Len(checked) :
              LET earlier(j) == checked[j].arrival < checked[k].arrival
                  previous == ChecksOfSameUser(k, earlier)
              IN  /\ checked[k].interventions_today =
                        Cardinality({j \in previous : checked[j].should_intervene})
                  /\ \A j \in previous :
                        (/\ \A i \in previous :
                               checked[i].arrival <= checked[j].arrival
                         /\ checked[j].level = "nudge"
                         /\ checked[k].level = "nudge") =>
                            checked[k].message[2] =
                                (checked[j].message[2] + 1) % NudgePoolSize

\* C29, what holds: the same when no two checks overlap, that is when every
\* check ran its queries after all checks that arrived before it were
\* answered
C29_HoldsWithoutOverlap ==
    (/\ ChecksAnswered
     /\ \A k \in 1..Len(checked) : checked[k].answered_before = k - 1) =>
        /\ \A k \in 1..Len(checked) :
              LET earlier(j) == j < k
                  previous == ChecksOfSameUser(k, earlier)
              IN  /\ checked[k].interventions_today =
                        Cardinality({j \in previous : checked[j].should_intervene})
                  /\ \A j \in previous :
                        (/\ \A i \in previous : i <= j
                         /\ checked[j].level = "nudge"
                         /\ checked[k].level = "nudge") =>
                            checked[k].message[2] =
                                (checked[j].message[2] + 1) % NudgePoolSize
        /\ Len(interventions) =
              Cardinality({k \in 1..Len(checked) : checked[k].should_intervene})

\* C29: four checks of one user, none overlapping, all at nudge level, have
\* gone through the pool and back to its first message
C29_PoolWrapsAround ==
    /\ ChecksAnswered
    /\ Len(checked) = 4
    /\ \A k \in 1..4 :
          /\ checked[k].user = "u1"
          /\ checked[k].level = "nudge"
          /\ checked[k].answered_before = k - 1
          /\ checked[k].message[2] = (k - 1) % NudgePoolSize

(***************************************************************************)
(* Claims about /sessions/start and /sessions/end (checked under           *)
(* SpecSessions)                                                           *)
(***************************************************************************)
\* C30: when every /sessions/start and /sessions/end request has completed,
\* at most one StudySession has is_active = true, every session with
\* is_active = false has ended_at set, and a session that was ended
\* (ended_at set) is not active.
C30_AtMostOneActiveSession ==
    (\A r \in Requests : session_reqs[r].pc = "idle") =>
        /\ Cardinality({i \in 1..Len(sessions) : sessions[i].is_active}) <= 1
        /\ \A i \in 1..Len(sessions) :
              ~sessions[i].is_active <=> sessions[i].ended_at # "None"

\* C30, what holds in every state: a session is inactive exactly when it
\* has ended_at set, and once ended it stays so
C30_EndedStaysEnded ==
    [][/\ \A i \in 1..Len(sessions) :
             ~sessions[i].is_active <=> sessions[i].ended_at # "None"
       /\ \A i \in 1..Len(sessions) :
             ~sessions[i].is_active =>
                 /\ i <= Len(sessions')
                 /\ ~sessions'[i].is_active]_vars

=============================================================================
